---- MODULE Spec2Model ----
(***************************************************************************)
(* A model of the tree memory arena of rust-book/src/tree_memory_arena:    *)
(* Arena<T> (arena.rs), its type aliases (arena_types.rs) and its locking  *)
(* helpers (safe_unwrap.rs).                                               *)
(*                                                                         *)
(* Every critical section of the code (one acquisition of the table's      *)
(* RwLock or of one node's RwLock, up to the release of its guard) is one  *)
(* atomic action of the model; a thread's local control flow between two   *)
(* critical sections (returns, `?`, unwrap, calls) belongs to the action   *)
(* of the critical section that precedes it.  A thread's position is its   *)
(* stack of frames, one per function it is inside.                         *)
(*                                                                         *)
(* Beside it, two single-threaded objects of tui-layout-crossterm: the     *)
(* Thunk of tests/test_temp.rs and the Canvas of src/layout/canvas.rs,     *)
(* each with a specification of its own (SpecT, SpecC).                    *)
(***************************************************************************)
EXTENDS Integers, Sequences, FiniteSets, TLC

\* The bound of the model: add_new_node is called while fewer than MaxNodes
\* identifiers have been issued.
MaxNodes == 3

\* Two threads share the arena; node ids and payloads the calls are made with.
Threads == {1, 2}
IdSpace == 0..(MaxNodes - 1)
Payloads == {"x"}

VARIABLES
  atomic_counter, \* Arena::atomic_counter
  map,            \* Arena::map: the keys of the table (key id holds the Arc of node id)
  nodes,          \* the Arc<RwLock<Node<T>>> allocations: id -> Node
  borrow_mut,     \* the thread holding `&mut Arena` (Some(t)), or None
  thread,         \* per thread: status, the call it runs, its stack, its result
  issued,         \* history: the ids add_new_node has returned, in order
  deleted,        \* history: the ids delete_node has returned in a list
  thunk,          \* test_temp.rs: the Thunk<T> under test
  accessed,       \* history: the calls of Thunk::access_field and what they returned
  canvas,         \* canvas.rs: the Canvas
  client          \* history: the calls made on the Canvas and the last result

\* The arena's state, and the state of the tui-layout-crossterm crate.
arena == <<atomic_counter, map, nodes, borrow_mut, thread, issued, deleted>>
tui == <<thunk, accessed, canvas, client>>

vars == <<atomic_counter, map, nodes, borrow_mut, thread, issued, deleted,
          thunk, accessed, canvas, client>>

----------------------------------------------------------------------------
\* Option<T>
None == <<>>
Some(x) == <<x>>
is_some(o) == o # <<>>
unwrap(o) == o[1]

Range(s) == {s[i] : i \in 1..Len(s)}
Last(s) == s[Len(s)]
Front(s) == SubSeq(s, 1, Len(s) - 1)

\* Mutants of retain: the predicate inverted, and nothing removed.
retain_inverted(children, node_id) == SelectSeq(children, LAMBDA c : c = node_id)
retain_nothing(children, node_id) == children

\* Vec::retain(|child_id| *child_id != node_id)
RECURSIVE retain(_, _)
retain(children, node_id) ==
  IF children = <<>> THEN <<>>
  ELSE IF Head(children) # node_id
       THEN <<Head(children)>> \o retain(Tail(children), node_id)
       ELSE retain(Tail(children), node_id)

\* Mutants of push: the id is not pushed, pushed twice, and written over the
\* children the node had.
push_lost(children, new_node_id) == children
push_overwrite(children, new_node_id) == <<new_node_id>>
push_front(children, new_node_id) == <<new_node_id>> \o children
push_twice(children, new_node_id) == Append(Append(children, new_node_id), new_node_id)

\* Vec::push(new_node_id)
push(children, new_node_id) == Append(children, new_node_id)

\* Mutant of extend: only the first child is pushed on the stack.
extend_first_child(stack, children) ==
  stack \o (IF children = <<>> THEN <<>> ELSE <<Head(children)>>)

\* Mutant of extend: the children are pushed last to first.
extend_reversed(stack, children) ==
  stack \o [i \in 1..Len(children) |-> children[Len(children) + 1 - i]]

\* Vec::extend(node.children.iter().cloned())
extend(stack, children) == stack \o children

\* HashMap::contains_key, HashMap::get(..).map(Arc::clone), HashMap::insert and
\* HashMap::remove for each id of a list, on the keys of the table.
contains_key(m, node_id) == node_id \in m
get(m, node_id) == IF node_id \in m THEN Some(node_id) ELSE None
insert(m, node_id) == m \cup {node_id}
remove_each_first(m, deletion_list) == m \ {Head(deletion_list)}
remove_each_clear(m, deletion_list) == {} \* mutant: the whole table is cleared
remove_each(m, deletion_list) == m \ Range(deletion_list)

\* Mutant of Node: the node is made its own parent.
Node_own_parent(new_node_id, parent_id_opt, data) ==
  [id |-> new_node_id, parent |-> Some(new_node_id), children |-> <<>>, payload |-> data]

\* Mutant of Node: the node lists itself as its child.
Node_lists_itself(new_node_id, parent_id_opt, data) ==
  [id |-> new_node_id, parent |-> parent_id_opt, children |-> <<new_node_id>>,
   payload |-> data]

\* Node { id, parent, children: vec![], payload }
Node(new_node_id, parent_id_opt, data) ==
  [id |-> new_node_id, parent |-> parent_id_opt, children |-> <<>>, payload |-> data]

\* Mutants of fetch_add: the counter is not stored back, and the counter is
\* one bit wide.
fetch_add_not_stored(counter, val) == [old |-> counter, new |-> counter]
fetch_add_one_bit(counter, val) == [old |-> counter, new |-> (counter + val) % 2]

\* AtomicUsize::fetch_add(val, SeqCst): the value before, and the stored value after.
fetch_add(counter, val) == [old |-> counter, new |-> counter + val]

\* Mutant of new: the counter starts at 1.
new_from_one == [map |-> {}, atomic_counter |-> 1]

\* Arena::new
new == [map |-> {}, atomic_counter |-> 0]

----------------------------------------------------------------------------
\* Frames.  A frame of a function of arena.rs holds its arguments and locals and
\* the place (pc) it waits at; a frame of a critical section holds what it locks.
\* The id field of a frame or call that names no node.
NoId == MaxNodes

Frame(fn, pc, id) ==
  [fn |-> fn, pc |-> pc, id |-> id, parent |-> None, data |-> None,
   collected |-> <<>>, stack |-> <<>>]

at(f, pc) == [f EXCEPT !.pc = pc]

\* What a step leaves a thread with: more to run, a returned value, or a panic.
\* `visits` are the calls of the walker_fn made on the way.
Run(stk) == [kind |-> "run", stack |-> stk, value |-> None, visits |-> <<>>]
Ret(v) == [kind |-> "ret", stack |-> <<>>, value |-> v, visits |-> <<>>]
Panic == [kind |-> "panic", stack |-> <<>>, value |-> None, visits |-> <<>>]

\* Calls: the callee's frame, down to its first critical section.
node_exists_call(node_id) == <<Frame("node_exists", "", node_id)>>
map_get_call(node_id) == <<Frame("map_get", "", node_id)>>
node_read_call(arc) == <<Frame("node_read", "", arc)>>
node_write_call(arc) == <<Frame("node_write", "", arc)>>
map_write_call == <<Frame("map_write", "", NoId)>>
generate_uid_call == <<Frame("generate_uid", "", NoId)>>
map_iter_call == <<Frame("map_iter", "", NoId)>>
\* The call of a callback for node `id` with the clone of its payload, made
\* with the node's read guard alive.
filter_fn_call(id, payload) == <<[Frame("filter_fn", "", id) EXCEPT !.data = payload]>>
walker_fn_call(uid, payload) == <<[Frame("walker_fn", "", uid) EXCEPT !.data = payload]>>
get_node_arc_weak_call(node_id) ==
  <<Frame("get_node_arc_weak", "exists", node_id)>> \o node_exists_call(node_id)
filter_all_nodes_by_call(filter_fn) ==
  <<[Frame("filter_all_nodes_by", "iter", NoId) EXCEPT !.data = filter_fn]>>
    \o map_iter_call
tree_walk_parallel_call(node_id) ==
  <<Frame("tree_walk_parallel", "walk", node_id)>>
    \o <<Frame("tree_walk_dfs", "exists", node_id)>> \o node_exists_call(node_id)
get_node_arc_call(node_id) ==
  <<Frame("get_node_arc", "exists", node_id)>> \o node_exists_call(node_id)
get_children_of_call(node_id) ==
  <<Frame("get_children_of", "exists", node_id)>> \o node_exists_call(node_id)
get_parent_of_call(node_id) ==
  <<Frame("get_parent_of", "exists", node_id)>> \o node_exists_call(node_id)
has_parent_call(node_id) ==
  <<Frame("has_parent", "exists", node_id)>> \o node_exists_call(node_id)
tree_walk_dfs_call(node_id) ==
  <<Frame("tree_walk_dfs", "exists", node_id)>> \o node_exists_call(node_id)
delete_node_call(node_id) ==
  <<Frame("delete_node", "exists", node_id)>> \o node_exists_call(node_id)
add_new_node_call(data, parent_id_opt) ==
  LET f == [Frame("add_new_node", "check", NoId) EXCEPT
              !.data = data, !.parent = parent_id_opt]
  IN IF is_some(parent_id_opt)
     THEN <<f>> \o node_exists_call(unwrap(parent_id_opt))
     ELSE <<at(f, "uid")>> \o generate_uid_call

RECURSIVE Resume(_, _)

\* Arena::get_node_arc
get_node_arc_resume(f, rest, v) ==
  CASE f.pc = "exists" ->
         IF ~v THEN Resume(rest, None)
         ELSE Run(rest \o <<at(f, "get")>> \o map_get_call(f.id))
    [] f.pc = "get" -> Resume(rest, v)

\* Mutant of get_node_arc_weak_resume: an id that is not found is unwrapped.
get_node_arc_weak_resume_unwrap(f, rest, v) ==
  CASE f.pc = "exists" ->
         IF ~v THEN Panic
         ELSE Run(rest \o <<at(f, "get")>> \o map_get_call(f.id))
    [] f.pc = "get" -> Resume(rest, v)

\* Arena::get_node_arc_weak
get_node_arc_weak_resume(f, rest, v) ==
  CASE f.pc = "exists" ->
         IF ~v THEN Resume(rest, None)
         ELSE Run(rest \o <<at(f, "get")>> \o map_get_call(f.id))
    [] f.pc = "get" -> Resume(rest, v)

\* The predicates filter_all_nodes_by is called with, on (id, payload).
FilterFns == {"is_x", "is_y", "is_99"}
filter_fn(name, id, payload) ==
  CASE name = "is_x" -> payload = "x"
    [] name = "is_y" -> payload = "y"
    [] name = "is_99" -> FALSE

\* Mutant of filtered_result: an empty list is returned as Some.
filtered_result_some(filtered_map) == Some(filtered_map)

\* filter_all_nodes_by: match filtered_map.len() { 0 => None, _ => Some(filtered_map) }
filtered_result(filtered_map) ==
  IF Len(filtered_map) = 0 THEN None ELSE Some(filtered_map)

\* filter_all_nodes_by: the next (id, node_ref) of map.iter(), or the end.
filter_all_nodes_by_next(f, rest) ==
  IF f.stack # <<>>
  THEN Run(rest \o <<[f EXCEPT !.pc = "read", !.id = Head(f.stack),
                               !.stack = Tail(f.stack)]>>
                \o node_read_call(Head(f.stack)))
  ELSE Resume(rest, filtered_result(f.collected))

\* Arena::filter_all_nodes_by
filter_all_nodes_by_resume(f, rest, v) ==
  CASE f.pc = "iter" -> filter_all_nodes_by_next([f EXCEPT !.stack = v], rest)
    [] f.pc = "read" ->
         Run(rest \o <<at(f, "filter")>> \o filter_fn_call(f.id, v.payload))
    [] f.pc = "filter" ->
         filter_all_nodes_by_next(
           IF v THEN [f EXCEPT !.collected = Append(f.collected, f.id)] ELSE f,
           rest)

\* Mutant of get_children_of_resume: no children are reported as None.
get_children_of_resume_none_if_empty(f, rest, v) ==
  CASE f.pc = "exists" ->
         IF ~v THEN Resume(rest, None)
         ELSE Run(rest \o <<at(f, "arc")>> \o get_node_arc_call(f.id))
    [] f.pc = "arc" ->
         IF ~is_some(v) THEN Resume(rest, None)
         ELSE Run(rest \o <<at(f, "read")>> \o node_read_call(unwrap(v)))
    [] f.pc = "read" ->
         Resume(rest, IF v.children = <<>> THEN None ELSE Some(v.children))

\* Arena::get_children_of
get_children_of_resume(f, rest, v) ==
  CASE f.pc = "exists" ->
         IF ~v THEN Resume(rest, None)
         ELSE Run(rest \o <<at(f, "arc")>> \o get_node_arc_call(f.id))
    [] f.pc = "arc" ->
         IF ~is_some(v) THEN Resume(rest, None)
         ELSE Run(rest \o <<at(f, "read")>> \o node_read_call(unwrap(v)))
    [] f.pc = "read" -> Resume(rest, Some(v.children))

\* Arena::get_parent_of
get_parent_of_resume(f, rest, v) ==
  CASE f.pc = "exists" ->
         IF ~v THEN Resume(rest, None)
         ELSE Run(rest \o <<at(f, "arc")>> \o get_node_arc_call(f.id))
    [] f.pc = "arc" ->
         IF ~is_some(v) THEN Resume(rest, None)
         ELSE Run(rest \o <<at(f, "read")>> \o node_read_call(unwrap(v)))
    [] f.pc = "read" -> Resume(rest, v.parent)

\* Mutant of has_parent_resume: a recorded parent is not looked up.
has_parent_resume_unchecked(f, rest, v) ==
  CASE f.pc = "exists" ->
         IF v THEN Run(rest \o <<at(f, "parent")>> \o get_parent_of_call(f.id))
         ELSE Resume(rest, FALSE)
    [] f.pc = "parent" -> Resume(rest, is_some(v))
    [] f.pc = "parent_exists" -> Resume(rest, v)

\* Arena::has_parent
has_parent_resume(f, rest, v) ==
  CASE f.pc = "exists" ->
         IF v THEN Run(rest \o <<at(f, "parent")>> \o get_parent_of_call(f.id))
         ELSE Resume(rest, FALSE)
    [] f.pc = "parent" ->
         IF is_some(v)
         THEN Run(rest \o <<at(f, "parent_exists")>> \o node_exists_call(unwrap(v)))
         ELSE Resume(rest, FALSE)
    [] f.pc = "parent_exists" -> Resume(rest, v)

\* Arena::tree_walk_dfs: `while let Some(node_id) = stack.pop()`, then the match.
tree_walk_dfs_loop(f, rest) ==
  IF f.stack # <<>>
  THEN Run(rest \o <<[f EXCEPT !.pc = "arc", !.stack = Front(f.stack)]>>
                \o get_node_arc_call(Last(f.stack)))
  ELSE Resume(rest, IF Len(f.collected) = 0 THEN None ELSE Some(f.collected))

\* Mutant of tree_walk_dfs_resume: a root that is not there gives an empty
\* list.
tree_walk_dfs_resume_absent_empty(f, rest, v) ==
  CASE f.pc = "exists" ->
         IF ~v THEN Resume(rest, Some(<<>>))
         ELSE tree_walk_dfs_loop([f EXCEPT !.collected = <<>>, !.stack = <<f.id>>], rest)
    [] f.pc = "arc" ->
         IF ~is_some(v) THEN Resume(rest, None)
         ELSE Run(rest \o <<at(f, "read")>> \o node_read_call(unwrap(v)))
    [] f.pc = "read" ->
         tree_walk_dfs_loop([f EXCEPT !.collected = Append(f.collected, v.id),
                                      !.stack = extend(f.stack, v.children)], rest)

\* Arena::tree_walk_dfs
tree_walk_dfs_resume(f, rest, v) ==
  CASE f.pc = "exists" ->
         IF ~v THEN Resume(rest, None)
         ELSE tree_walk_dfs_loop([f EXCEPT !.collected = <<>>, !.stack = <<f.id>>], rest)
    [] f.pc = "arc" ->
         IF ~is_some(v) THEN Resume(rest, None)
         ELSE Run(rest \o <<at(f, "read")>> \o node_read_call(unwrap(v)))
    [] f.pc = "read" ->
         tree_walk_dfs_loop([f EXCEPT !.collected = Append(f.collected, v.id),
                                      !.stack = extend(f.stack, v.children)], rest)

\* Mutant of tree_walk_parallel_next: the spawned thread returns None.
tree_walk_parallel_next_none(f, rest) ==
  IF f.stack # <<>>
  THEN Run(rest \o <<[f EXCEPT !.pc = "arc", !.parent = Some(Head(f.stack)),
                               !.stack = Tail(f.stack)]>>
                \o get_node_arc_call(Head(f.stack)))
  ELSE Resume(rest, None)

\* MTArena::tree_walk_parallel: the next uid of result_list.into_iter().for_each,
\* or the return_value at its end.
tree_walk_parallel_next(f, rest) ==
  IF f.stack # <<>>
  THEN Run(rest \o <<[f EXCEPT !.pc = "arc", !.parent = Some(Head(f.stack)),
                               !.stack = Tail(f.stack)]>>
                \o get_node_arc_call(Head(f.stack)))
  ELSE Resume(rest, f.data)

\* MTArena::tree_walk_parallel, the spawned closure (data is return_value,
\* parent the uid at hand).
tree_walk_parallel_resume(f, rest, v) ==
  CASE f.pc = "walk" ->
         IF is_some(v)
         THEN tree_walk_parallel_next([f EXCEPT !.data = v, !.stack = unwrap(v)], rest)
         ELSE Resume(rest, v)
    [] f.pc = "arc" ->
         IF is_some(v)
         THEN Run(rest \o <<at(f, "read")>> \o node_read_call(unwrap(v)))
         ELSE tree_walk_parallel_next(f, rest)
    [] f.pc = "read" ->
         Run(rest \o <<at(f, "visit")>> \o walker_fn_call(unwrap(f.parent), v.payload))
    [] f.pc = "visit" ->
         [tree_walk_parallel_next(f, rest) EXCEPT !.visits = <<v>>]

\* Mutant of delete_node_resume: only the node itself is reported as deleted.
delete_node_resume_root_only(f, rest, v) ==
  CASE f.pc = "exists" ->
         IF ~v THEN Resume(rest, None)
         ELSE Run(rest \o <<at(f, "walk")>> \o tree_walk_dfs_call(f.id))
    [] f.pc = "walk" ->
         IF ~is_some(v) THEN Resume(rest, None)
         ELSE Run(rest \o <<[f EXCEPT !.pc = "has_parent", !.collected = unwrap(v)]>>
                       \o has_parent_call(f.id))
    [] f.pc = "has_parent" ->
         IF v THEN Run(rest \o <<at(f, "get_parent")>> \o get_parent_of_call(f.id))
         ELSE Run(rest \o <<at(f, "remove")>> \o map_write_call)
    [] f.pc = "get_parent" ->
         IF ~is_some(v) THEN Panic
         ELSE Run(rest \o <<[f EXCEPT !.pc = "parent_arc", !.parent = v]>>
                       \o get_node_arc_call(unwrap(v)))
    [] f.pc = "parent_arc" ->
         IF ~is_some(v) THEN Panic
         ELSE Run(rest \o <<at(f, "retain")>> \o node_write_call(unwrap(v)))
    [] f.pc = "retain" -> Run(rest \o <<at(f, "remove")>> \o map_write_call)
    [] f.pc = "remove" -> Resume(rest, Some(<<f.id>>))

\* Arena::delete_node
delete_node_resume(f, rest, v) ==
  CASE f.pc = "exists" ->
         IF ~v THEN Resume(rest, None)
         ELSE Run(rest \o <<at(f, "walk")>> \o tree_walk_dfs_call(f.id))
    [] f.pc = "walk" ->
         IF ~is_some(v) THEN Resume(rest, None)
         ELSE Run(rest \o <<[f EXCEPT !.pc = "has_parent", !.collected = unwrap(v)]>>
                       \o has_parent_call(f.id))
    [] f.pc = "has_parent" ->
         IF v THEN Run(rest \o <<at(f, "get_parent")>> \o get_parent_of_call(f.id))
         ELSE Run(rest \o <<at(f, "remove")>> \o map_write_call)
    [] f.pc = "get_parent" ->
         IF ~is_some(v) THEN Panic
         ELSE Run(rest \o <<[f EXCEPT !.pc = "parent_arc", !.parent = v]>>
                       \o get_node_arc_call(unwrap(v)))
    [] f.pc = "parent_arc" ->
         IF ~is_some(v) THEN Panic
         ELSE Run(rest \o <<at(f, "retain")>> \o node_write_call(unwrap(v)))
    [] f.pc = "retain" -> Run(rest \o <<at(f, "remove")>> \o map_write_call)
    [] f.pc = "remove" -> Resume(rest, Some(f.collected))

\* Mutant of add_new_node_resume: the new id is pushed to the parent's
\* children before the node is inserted into the table.
add_new_node_resume_link_first(f, rest, v) ==
  CASE f.pc = "check" ->
         IF ~v THEN Panic
         ELSE Run(rest \o <<at(f, "uid")>> \o generate_uid_call)
    [] f.pc = "uid" ->
         IF is_some(f.parent)
         THEN Run(rest \o <<[f EXCEPT !.pc = "parent_arc", !.id = v]>>
                       \o get_node_arc_call(unwrap(f.parent)))
         ELSE Run(rest \o <<[f EXCEPT !.pc = "insert", !.id = v]>> \o map_write_call)
    [] f.pc = "parent_arc" ->
         IF is_some(v)
         THEN Run(rest \o <<at(f, "push")>> \o node_write_call(unwrap(v)))
         ELSE Run(rest \o <<at(f, "insert")>> \o map_write_call)
    [] f.pc = "push" -> Run(rest \o <<at(f, "insert")>> \o map_write_call)
    [] f.pc = "insert" -> Resume(rest, f.id)

\* Mutant of add_new_node_resume: the id is generated before the call fails
\* for a parent that is not there.
add_new_node_resume_uid_first(f, rest, v) ==
  CASE f.pc = "check" ->
         IF ~v THEN Run(rest \o <<at(f, "fail")>> \o generate_uid_call)
         ELSE Run(rest \o <<at(f, "uid")>> \o generate_uid_call)
    [] f.pc = "fail" -> Panic
    [] f.pc = "uid" ->
         Run(rest \o <<[f EXCEPT !.pc = "insert", !.id = v]>> \o map_write_call)
    [] f.pc = "insert" ->
         IF is_some(f.parent)
         THEN Run(rest \o <<at(f, "parent_arc")>> \o get_node_arc_call(unwrap(f.parent)))
         ELSE Resume(rest, f.id)
    [] f.pc = "parent_arc" ->
         IF is_some(v)
         THEN Run(rest \o <<at(f, "push")>> \o node_write_call(unwrap(v)))
         ELSE Resume(rest, f.id)
    [] f.pc = "push" -> Resume(rest, f.id)

\* Mutant of add_new_node_resume: the parent is not checked.
add_new_node_resume_unchecked(f, rest, v) ==
  CASE f.pc = "check" -> Run(rest \o <<at(f, "uid")>> \o generate_uid_call)
    [] f.pc = "uid" ->
         Run(rest \o <<[f EXCEPT !.pc = "insert", !.id = v]>> \o map_write_call)
    [] f.pc = "insert" ->
         IF is_some(f.parent)
         THEN Run(rest \o <<at(f, "parent_arc")>> \o get_node_arc_call(unwrap(f.parent)))
         ELSE Resume(rest, f.id)
    [] f.pc = "parent_arc" ->
         IF is_some(v)
         THEN Run(rest \o <<at(f, "push")>> \o node_write_call(unwrap(v)))
         ELSE Resume(rest, f.id)
    [] f.pc = "push" -> Resume(rest, f.id)

\* Arena::add_new_node
add_new_node_resume(f, rest, v) ==
  CASE f.pc = "check" ->
         IF ~v THEN Panic
         ELSE Run(rest \o <<at(f, "uid")>> \o generate_uid_call)
    [] f.pc = "uid" ->
         Run(rest \o <<[f EXCEPT !.pc = "insert", !.id = v]>> \o map_write_call)
    [] f.pc = "insert" ->
         IF is_some(f.parent)
         THEN Run(rest \o <<at(f, "parent_arc")>> \o get_node_arc_call(unwrap(f.parent)))
         ELSE Resume(rest, f.id)
    [] f.pc = "parent_arc" ->
         IF is_some(v)
         THEN Run(rest \o <<at(f, "push")>> \o node_write_call(unwrap(v)))
         ELSE Resume(rest, f.id)
    [] f.pc = "push" -> Resume(rest, f.id)

\* The callee on top of `stk` has returned v: run the caller to its next
\* critical section.
Resume(stk, v) ==
  IF stk = <<>> THEN Ret(v)
  ELSE LET f == Last(stk)
           rest == Front(stk)
       IN CASE f.fn = "get_node_arc" -> get_node_arc_resume(f, rest, v)
            [] f.fn = "get_node_arc_weak" -> get_node_arc_weak_resume(f, rest, v)
            [] f.fn = "filter_all_nodes_by" -> filter_all_nodes_by_resume(f, rest, v)
            [] f.fn = "tree_walk_parallel" -> tree_walk_parallel_resume(f, rest, v)
            [] f.fn = "get_children_of" -> get_children_of_resume(f, rest, v)
            [] f.fn = "get_parent_of" -> get_parent_of_resume(f, rest, v)
            [] f.fn = "has_parent" -> has_parent_resume(f, rest, v)
            [] f.fn = "tree_walk_dfs" -> tree_walk_dfs_resume(f, rest, v)
            [] f.fn = "delete_node" -> delete_node_resume(f, rest, v)
            [] f.fn = "add_new_node" -> add_new_node_resume(f, rest, v)

----------------------------------------------------------------------------
\* Threads.  `quiet` says that no other call has run on the arena since the
\* thread's call began, and `pre` then holds the arena as it was when it began.
\* The record of a call: `live` says whether the node the call names (for
\* add_new_node, the parent) was in the table when the call began.
Call(op, data, parent_id_opt, node_id, live) ==
  [op |-> op, data |-> data, parent |-> parent_id_opt, id |-> node_id,
   live |-> live]

\* `result` is Some of the value the call returned, `visited` lists the
\* walker_fn calls the thread's tree_walk_parallel made.
Idle == [status |-> "idle", call |-> Call("", None, None, NoId, FALSE),
         stack |-> <<>>, result |-> None,
         pre |-> None, quiet |-> TRUE, visited |-> <<>>]

\* The value thread t's call returned.
Result(t) == unwrap(thread[t].result)

Running(t) == thread[t].status = "running"
Top(t) == Last(thread[t].stack)
Caller(t) == thread[t].stack[Len(thread[t].stack) - 1]
In(t, fn) == Running(t) /\ Top(t).fn = fn

\* Mutant of HeldArcs: get_node_arc hands out no strong reference.
HeldArcs_running(thr) ==
  {Last(thr[t].stack).id :
     t \in {u \in Threads : /\ thr[u].status = "running"
                            /\ Last(thr[u].stack).fn \in
                                 {"node_read", "node_write", "walker_fn"}}}

\* The node allocations some thread holds an Arc of, besides the table: a
\* thread keeps an Arc only from its get_node_arc to the end of the critical
\* section on that node, the frame on top of its stack (tree_walk_parallel
\* keeps node_arc over the call of the walker_fn); the caller of
\* get_node_arc holds the Arc it was returned (get_node_arc_weak returns a
\* Weak, which keeps nothing alive).
HeldArcs(thr) ==
  {Last(thr[t].stack).id :
     t \in {u \in Threads : /\ thr[u].status = "running"
                            /\ Last(thr[u].stack).fn \in
                                 {"node_read", "node_write", "walker_fn"}}}
  \cup {unwrap(unwrap(thr[t].result)) :
          t \in {u \in Threads : /\ thr[u].status = "returned"
                                 /\ thr[u].call.op = "get_node_arc"
                                 /\ is_some(unwrap(thr[u].result))}}

\* Mutant of MapReaders: the guard is not dropped when filter_all_nodes_by
\* returns.
MapReaders_leaked ==
  {t \in Threads : \/ /\ thread[t].status = "running"
                      /\ thread[t].stack[1].fn = "filter_all_nodes_by"
                      /\ thread[t].stack[1].pc \in {"read", "filter"}
                   \/ /\ thread[t].status = "returned"
                      /\ thread[t].call.op = "filter_all_nodes_by"}

\* The threads that hold the table's read lock from one step to the next:
\* filter_all_nodes_by keeps map.read() while it reads the nodes and calls the
\* filter_fn.
MapReaders ==
  {t \in Threads : /\ thread[t].status = "running"
                   /\ thread[t].stack[1].fn = "filter_all_nodes_by"
                   /\ thread[t].stack[1].pc \in {"read", "filter"}}

\* The threads that run a callback: the filter_fn of filter_all_nodes_by or
\* the walker_fn of tree_walk_parallel.
InCallback == {t \in Threads : In(t, "filter_fn") \/ In(t, "walker_fn")}

\* The threads that hold the read lock of node `arc` from one step to the
\* next: the guard of node_ref.read().unwrap() is a temporary of the
\* expression that calls the filter_fn, and tree_walk_parallel's node_ref is
\* in scope at the call of the walker_fn, so each is dropped after the call.
\* So does a thread that a step has left inside the read section of a getter.
NodeReaders(arc) ==
  {t \in InCallback : Top(t).id = arc}
    \cup {t \in Threads : In(t, "node_read") /\ Top(t).pc = "held" /\ Top(t).id = arc}

\* The threads that hold a write guard, of the table or of a node, from one
\* step to the next: none, every write guard is dropped in the step that
\* takes it.
Writers == {}

\* Mutant of read_granted: the lock is a mutex, one reader at a time.
read_granted_exclusive(readers, writers) == readers = {} /\ writers = {}

\* RwLock::read and RwLock::write: a reader gets the lock beside the other
\* threads' readers, a writer gets it when no other thread holds it.
read_granted(readers, writers) == writers = {}
write_granted(readers, writers) == readers = {} /\ writers = {}

\* The outer RwLock of an MTArena is poisoned once a writer has panicked.
Poisoned ==
  \E t \in Threads : /\ thread[t].status = "panicked"
                     /\ thread[t].call.op = "add_new_node"

\* The nodes whose RwLock is poisoned: a thread has panicked in the
\* receiver_fn of unwrap_arc_write_lock_and_call, with the write guard alive.
PoisonedNodes ==
  {thread[t].call.id :
     t \in {u \in Threads : /\ thread[u].status = "panicked"
                            /\ thread[u].call.op = "unwrap_arc_write_lock_and_call"}}

-----------------------------------------------------------------------------
\* tui-layout-crossterm/tests/test_temp.rs: a field computed on first access.

\* The bound of the model: access_field is called at most MaxAccess times.
MaxAccess == 3

\* The values a compute function is given to return.
Values == 0..2

\* ThunkResult<T> = Result<T, Box<ThunkError>>
Ok(v) == [ok |-> TRUE, value |-> Some(v), err |-> None]
Err(e) == [ok |-> FALSE, value |-> None, err |-> Some(e)]

ComputeFieldFnError == "ComputeFieldFnError"
ThunkError(err_type) == [err_type |-> err_type]

\* enum ThunkState<T>
NotComputedYet == [state |-> "NotComputedYet", value |-> None, err |-> None]
ComputedResultingInError(e) ==
  [state |-> "ComputedResultingInError", value |-> None, err |-> Some(e)]
ComputedResultingInValue(v) ==
  [state |-> "ComputedResultingInValue", value |-> Some(v), err |-> None]

\* ThunkFunction<T> = fn() -> ThunkResult<T>.  A function pointer takes no
\* argument but need not be pure: it is modelled by the results its successive
\* invocations would return, f[1] by the first, f[2] by the second, ...
ThunkResults == {Ok(v) : v \in Values} \cup {Err(ThunkError(ComputeFieldFnError))}
ThunkFunctions == [1..MaxAccess -> ThunkResults]

\* Thunk::new
Thunk_new(compute_field_value_fn) ==
  [field |-> NotComputedYet, compute_field_value_fn |-> compute_field_value_fn]

\* Thunk::access_field without the assignments to self.field.
Thunk_access_field_uncached(self, invoked) ==
  LET result == self.compute_field_value_fn[invoked + 1]
  IN [self |-> self, returns |-> Some(result), invoked |-> invoked + 1]

\* Thunk::access_field(&mut self), after `invoked` invocations of the compute
\* function: the thunk it leaves, what it returns (None: it panics) and the
\* number of invocations then.
Thunk_access_field(self, invoked) ==
  IF self.field = NotComputedYet
  THEN LET result == self.compute_field_value_fn[invoked + 1]
       IN IF result.ok
          THEN [self |-> [self EXCEPT !.field =
                            ComputedResultingInValue(unwrap(result.value))],
                returns |-> Some(Ok(unwrap(result.value))),
                invoked |-> invoked + 1]
          ELSE [self |-> [self EXCEPT !.field =
                            ComputedResultingInError(unwrap(result.err))],
                returns |-> Some(Err(unwrap(result.err))),
                invoked |-> invoked + 1]
  ELSE IF self.field.state = "ComputedResultingInValue"
  THEN [self |-> self, returns |-> Some(Ok(unwrap(self.field.value))),
        invoked |-> invoked]
  ELSE IF self.field.state = "ComputedResultingInError"
  THEN [self |-> self, returns |-> Some(Err(unwrap(self.field.err))),
        invoked |-> invoked]
  ELSE [self |-> self, returns |-> None, invoked |-> invoked]

\* test_name's thunk: Thunk::new(|| Ok(1))
test_name_thunk == Thunk_new([i \in 1..MaxAccess |-> Ok(1)])

\* No call of access_field yet.
NotAccessed == [invoked |-> 0, returned |-> <<>>]

-----------------------------------------------------------------------------
\* tui-layout-crossterm/src/layout: the canvas and its stack of layouts.

\* The bound of the model: at most MaxCalls calls are made on the canvas.
MaxCalls == 8

\* Position and Size (pairs), and the properties the calls are made with.  The
\* arithmetic on them (calc_percentage, Position + Size, Position * Pair) is
\* outside this crate's layout module: a call is given its results, any of
\* Sizes and Positions.
Positions == {<<0, 0>>, <<0, 1>>}
Sizes == {<<1, 1>>, <<2, 2>>}
Directions == {"Horizontal", "Vertical"}
CanvasProps == [pos : Positions, size : Sizes]
LayoutProps == [id : {"container"}, dir : Directions, req_size : {<<100, 100>>}]

\* CommonResult<()>: Ok(()) and the errors of the layout module.
Unit == <<>>
LayoutError(err_type) == [err_type |-> err_type]

\* Canvas::default()
Canvas_default == [origin_pos |-> <<0, 0>>, canvas_size |-> <<0, 0>>,
                   layout_stack |-> <<>>]

\* Layout::make_root_layout, bounds_size being the Size it computes.
make_root_layout(id, bounds_size, origin_pos, req_size, dir) ==
  [id |-> id, dir |-> dir, origin_pos |-> Some(origin_pos),
   bounds_size |-> Some(bounds_size), req_size_percent |-> Some(req_size),
   layout_cursor_pos |-> Some(origin_pos), content_cursor_pos |-> None]

\* Layout::make_layout, bounds_size being the Size it computes.
make_layout(id, dir, bounds_size, origin_pos, req_size) ==
  [id |-> id, dir |-> dir, origin_pos |-> Some(origin_pos),
   bounds_size |-> Some(bounds_size), req_size_percent |-> Some(req_size),
   layout_cursor_pos |-> None, content_cursor_pos |-> None]

is_layout_stack_empty(self) == self.layout_stack = <<>>

push_layout(self, layout) == [self EXCEPT !.layout_stack = Append(@, layout)]

\* Vec::pop: nothing to remove from an empty vector
pop_layout(self) ==
  [self EXCEPT !.layout_stack = IF @ = <<>> THEN @ ELSE Front(@)]

\* Canvas::start that does not look at the stack.
Canvas_start_unchecked(self, bounds_props) ==
  [self |-> [self EXCEPT !.origin_pos = bounds_props.pos,
                         !.canvas_size = bounds_props.size],
   result |-> Ok(Unit)]

\* Canvas::start: the canvas it leaves and what it returns.
Canvas_start(self, bounds_props) ==
  IF ~is_layout_stack_empty(self)
  THEN [self |-> self, result |-> Err(LayoutError("MismatchedStart"))]
  ELSE [self |-> [self EXCEPT !.origin_pos = bounds_props.pos,
                              !.canvas_size = bounds_props.size],
        result |-> Ok(Unit)]

\* Canvas::end
Canvas_end(self) ==
  IF ~is_layout_stack_empty(self)
  THEN [self |-> self, result |-> Err(LayoutError("MismatchedEnd"))]
  ELSE [self |-> self, result |-> Ok(Unit)]

\* Canvas::add_root_layout
add_root_layout(self, props, bounds_size) ==
  [self |-> push_layout(self, make_root_layout(props.id, bounds_size,
                                               self.origin_pos, props.req_size,
                                               props.dir)),
   result |-> Ok(Unit)]

\* Canvas::add_normal_layout: get_current_layout()? and the unwrap_or_err!
\* of the container's bounds and cursor, then calc_next_layout_cursor_pos
\* (new_pos), update_layout_cursor_pos and push_layout.
add_normal_layout(self, props, bounds_size, new_pos) ==
  IF self.layout_stack = <<>>
  THEN [self |-> self, result |-> Err(LayoutError("LayoutStackShouldNotBeEmpty"))]
  ELSE LET current_layout == Last(self.layout_stack)
       IN IF ~is_some(current_layout.bounds_size)
          THEN [self |-> self,
                result |-> Err(LayoutError("ContainerBoundsNotDefined"))]
          ELSE IF ~is_some(current_layout.layout_cursor_pos)
          THEN [self |-> self,
                result |-> Err(LayoutError("LayoutCursorPositionNotDefined"))]
          ELSE LET old_position == unwrap(current_layout.layout_cursor_pos)
                   updated == [self EXCEPT
                                 !.layout_stack[Len(self.layout_stack)]
                                    .layout_cursor_pos = Some(new_pos)]
               IN [self |-> push_layout(updated,
                                        make_layout(props.id, props.dir, bounds_size,
                                                    old_position, props.req_size)),
                   result |-> Ok(Unit)]

\* Canvas::start_layout
Canvas_start_layout(self, layout_props, bounds_size, new_pos) ==
  IF is_layout_stack_empty(self)
  THEN add_root_layout(self, layout_props, bounds_size)
  ELSE add_normal_layout(self, layout_props, bounds_size, new_pos)

\* Canvas::end_layout
Canvas_end_layout(self) ==
  IF is_layout_stack_empty(self)
  THEN [self |-> self, result |-> Err(LayoutError("MismatchedEndLayout"))]
  ELSE [self |-> pop_layout(self), result |-> Ok(Unit)]

\* No call on the canvas yet.  A client's record: the calls made, the last
\* one and its result; whether start has succeeded; and of the start_layout
\* and end_layout calls made since, how many start_layout calls are not yet
\* matched by an end_layout call (open), how many start_layout calls returned
\* an error (refused), and whether no end_layout call came without a
\* start_layout call to match (nested).
NoCalls == [calls |-> 0, op |-> "", result |-> Ok(Unit), started |-> FALSE,
            open |-> 0, refused |-> 0, nested |-> TRUE]

-----------------------------------------------------------------------------
Init ==
  /\ atomic_counter = new.atomic_counter
  /\ map = new.map
  /\ nodes = <<>>
  /\ borrow_mut = None
  /\ thread = [t \in Threads |-> Idle]
  /\ issued = <<>>
  /\ deleted = {}
  /\ thunk = test_name_thunk
  /\ accessed = NotAccessed
  /\ canvas = Canvas_default
  /\ client = NoCalls

\* Thread t's critical section has returned v to the frames below it, with the
\* table m and the node allocations n.
Step(t, v, m, n) ==
  \E out \in {Resume(Front(thread[t].stack), v)} :
  LET me == thread[t]
      thr == [thread EXCEPT ![t] =
                CASE out.kind = "run" ->
                       [me EXCEPT !.stack = out.stack,
                                  !.visited = @ \o out.visits]
                  [] out.kind = "ret" ->
                       [me EXCEPT !.status = "returned", !.stack = <<>>,
                                  !.result = Some(out.value),
                                  !.visited = @ \o out.visits]
                  [] out.kind = "panic" ->
                       [me EXCEPT !.status = "panicked", !.stack = <<>>, !.pre = None]]
      keep == m \cup HeldArcs(thr)
  IN /\ thread' = thr
     /\ UNCHANGED tui
     /\ map' = m
     /\ nodes' = [id \in keep |-> n[id]]
     /\ borrow_mut' = IF out.kind = "run" THEN borrow_mut ELSE None
     /\ issued' = IF out.kind = "ret" /\ me.call.op = "add_new_node"
                  THEN Append(issued, out.value)
                  ELSE issued
     /\ deleted' = IF out.kind = "ret" /\ me.call.op = "delete_node" /\ is_some(out.value)
                   THEN deleted \cup Range(unwrap(out.value))
                   ELSE deleted

\* Thread t's call panics: read().unwrap() or write().unwrap() of a poisoned
\* lock.  The thread unwinds and drops what it holds.
Raise(t) ==
  LET thr == [thread EXCEPT ![t] =
                [@ EXCEPT !.status = "panicked", !.stack = <<>>, !.pre = None]]
  IN /\ thread' = thr
     /\ UNCHANGED tui
     /\ nodes' = [id \in map \cup HeldArcs(thr) |-> nodes[id]]
     /\ borrow_mut' = None
     /\ UNCHANGED <<map, issued, deleted>>

\* A call begins: the caller's thread t, the call and its first frames.
Begin(t, call, stk) ==
  LET others == {u \in Threads \ {t} : Running(u)}
      waiting == {u \in Threads \ {t} : thread[u].status = "returned"}
  IN /\ UNCHANGED tui
     /\ thread' = [u \in Threads |->
                  IF u = t
                  THEN [status |-> "running", call |-> call, stack |-> stk,
                        result |-> None,
                        pre |-> IF others = {}
                                THEN Some([map |-> map, nodes |-> nodes,
                                           deleted |-> deleted,
                                           atomic_counter |-> atomic_counter])
                                ELSE None,
                        quiet |-> others = {}, visited |-> <<>>]
                  ELSE IF u \in others \cup waiting
                  THEN [thread[u] EXCEPT !.quiet = FALSE, !.pre = None]
                  ELSE thread[u]]

\* Arena::add_new_node is called: `&mut self` is borrowed, so no other call is
\* running on this arena and none begins before this one ends.
add_new_node(t, data, parent_id_opt) ==
  /\ thread[t].status = "idle"
  /\ borrow_mut = None
  /\ \A u \in Threads : ~Running(u)
  /\ atomic_counter < MaxNodes
  /\ borrow_mut' = Some(t)
  /\ Begin(t, Call("add_new_node", Some(data), parent_id_opt, NoId,
                   is_some(parent_id_opt) /\ unwrap(parent_id_opt) \in map),
           add_new_node_call(data, parent_id_opt))
  /\ UNCHANGED <<atomic_counter, map, nodes, issued, deleted>>

\* Mutant of delete_node: it begins beside a running add_new_node, as if
\* add_new_node took `&self`.
delete_node_beside_add(t, node_id) ==
  /\ thread[t].status = "idle"
  /\ Begin(t, Call("delete_node", None, None, node_id, node_id \in map),
           delete_node_call(node_id))
  /\ UNCHANGED <<atomic_counter, map, nodes, borrow_mut, issued, deleted>>

\* Arena::delete_node is called through `&self`.
delete_node(t, node_id) ==
  /\ thread[t].status = "idle"
  /\ borrow_mut = None
  /\ Begin(t, Call("delete_node", None, None, node_id, node_id \in map),
           delete_node_call(node_id))
  /\ UNCHANGED <<atomic_counter, map, nodes, borrow_mut, issued, deleted>>

\* The caller takes the result of its call, and drops it.
call_return(t) ==
  /\ thread[t].status = "returned"
  /\ LET thr == [thread EXCEPT ![t] = Idle]
     IN /\ thread' = thr
        /\ nodes' = [id \in map \cup HeldArcs(thr) |-> nodes[id]]
  /\ UNCHANGED <<atomic_counter, map, borrow_mut, issued, deleted, tui>>

\* Arena::node_exists: map.read().contains_key(&node_id)
node_exists(t) ==
  /\ In(t, "node_exists")
  /\ read_granted(MapReaders \ {t}, Writers)
  /\ Step(t, contains_key(map, Top(t).id), map, nodes)
  /\ UNCHANGED atomic_counter

\* Mutant of map_get: the entry is taken out of the table, HashMap::remove
\* for HashMap::get.
map_get_removes(t) ==
  /\ In(t, "map_get")
  /\ read_granted(MapReaders \ {t}, Writers)
  /\ Step(t, get(map, Top(t).id), map \ {Top(t).id}, nodes)
  /\ UNCHANGED atomic_counter

\* map.read().get(&node_id).map(Arc::clone) of Arena::get_node_arc
map_get(t) ==
  /\ In(t, "map_get")
  /\ read_granted(MapReaders \ {t}, Writers)
  /\ Step(t, get(map, Top(t).id), map, nodes)
  /\ UNCHANGED atomic_counter

\* Mutant of node_read: the poison of the lock is not looked at.
node_read_unchecked(t) ==
  /\ In(t, "node_read")
  /\ read_granted(NodeReaders(Top(t).id) \ {t}, Writers)
  /\ Step(t, nodes[Top(t).id], map, nodes)
  /\ UNCHANGED atomic_counter

\* A node's read lock, read().unwrap(): the closure reads the node's fields.
node_read(t) ==
  /\ In(t, "node_read")
  /\ read_granted(NodeReaders(Top(t).id) \ {t}, Writers)
  /\ IF Top(t).id \in PoisonedNodes
     THEN Raise(t)
     ELSE Step(t, nodes[Top(t).id], map, nodes)
  /\ UNCHANGED atomic_counter

\* A getter's thread takes a node's read lock and is stopped with the guard
\* alive, before the closure has read the node.
node_read_lock(t) ==
  /\ In(t, "node_read")
  /\ Top(t).pc = ""
  /\ Top(t).id \notin PoisonedNodes
  /\ read_granted(NodeReaders(Top(t).id) \ {t}, Writers)
  /\ thread' = [thread EXCEPT ![t].stack[Len(thread[t].stack)].pc = "held"]
  /\ UNCHANGED <<atomic_counter, map, nodes, borrow_mut, issued, deleted, tui>>

\* Arena::generate_uid
generate_uid(t) ==
  /\ In(t, "generate_uid")
  /\ LET r == fetch_add(atomic_counter, 1)
     IN /\ atomic_counter' = r.new
        /\ Step(t, r.old, map, nodes)

\* add_new_node: map.write(), map.insert(new_node_id, Arc::new(RwLock::new(Node{..})))
map_insert(t) ==
  /\ In(t, "map_write")
  /\ Caller(t).fn = "add_new_node"
  /\ write_granted(MapReaders \ {t}, Writers)
  /\ LET f == Caller(t)
         value == Node(f.id, f.parent, f.data)
     IN Step(t, None, insert(map, f.id),
             [id \in DOMAIN nodes \cup {f.id} |-> IF id = f.id THEN value ELSE nodes[id]])
  /\ UNCHANGED atomic_counter

\* add_new_node: the parent's write lock, parent_node.children.push(new_node_id)
children_push(t) ==
  /\ In(t, "node_write")
  /\ Caller(t).fn = "add_new_node"
  /\ write_granted(NodeReaders(Top(t).id), Writers)
  /\ LET arc == Top(t).id
     IN IF arc \in PoisonedNodes
        THEN Raise(t)
        ELSE Step(t, None, map,
                  [nodes EXCEPT ![arc].children = push(@, Caller(t).id)])
  /\ UNCHANGED atomic_counter

\* delete_node: the parent's write lock, parent_node.children.retain(..)
children_retain(t) ==
  /\ In(t, "node_write")
  /\ Caller(t).fn = "delete_node"
  /\ write_granted(NodeReaders(Top(t).id), Writers)
  /\ LET arc == Top(t).id
     IN IF arc \in PoisonedNodes
        THEN Raise(t)
        ELSE Step(t, None, map,
                  [nodes EXCEPT ![arc].children = retain(@, Caller(t).id)])
  /\ UNCHANGED atomic_counter

\* delete_node: map.write(), map.remove(id) for each id of the deletion list
map_remove(t) ==
  /\ In(t, "map_write")
  /\ Caller(t).fn = "delete_node"
  /\ write_granted(MapReaders \ {t}, Writers)
  /\ Step(t, None, remove_each(map, Caller(t).collected), nodes)
  /\ UNCHANGED atomic_counter

\* map.read() of filter_all_nodes_by and its map.iter(): a HashMap iterates
\* its entries in an order the program does not choose.
iter_orders(m) ==
  {order \in [1..Cardinality(m) -> m] :
     \A i, j \in 1..Cardinality(m) : i # j => order[i] # order[j]}

map_iter(t) ==
  /\ In(t, "map_iter")
  /\ read_granted(MapReaders \ {t}, Writers)
  /\ \E order \in iter_orders(map) : Step(t, order, map, nodes)
  /\ UNCHANGED atomic_counter

\* unwrap_arc_write_lock_and_call(&node_arc, receiver_fn) by the thread that
\* got node_arc from get_node_arc, with a receiver_fn that panics: the write
\* guard is dropped by the unwinding and the lock is poisoned.
receiver_fn_panics(t) ==
  /\ thread[t].status = "returned"
  /\ thread[t].call.op = "get_node_arc"
  /\ is_some(Result(t))
  /\ LET arc == unwrap(Result(t))
         thr == [thread EXCEPT ![t] =
                   [Idle EXCEPT !.status = "panicked", !.quiet = FALSE,
                                !.call = Call("unwrap_arc_write_lock_and_call",
                                              None, None, arc, arc \in map)]]
     IN /\ write_granted(NodeReaders(arc), Writers)
        /\ arc \notin PoisonedNodes
        /\ thread' = thr
        /\ nodes' = [id \in map \cup HeldArcs(thr) |-> nodes[id]]
  /\ UNCHANGED <<atomic_counter, map, borrow_mut, issued, deleted, tui>>

\* filter_all_nodes_by's filter_fn(id, payload) runs and returns.
filter_fn_return(t) ==
  /\ In(t, "filter_fn")
  /\ Step(t, filter_fn(Caller(t).data, Top(t).id, Top(t).data), map, nodes)
  /\ UNCHANGED atomic_counter

\* tree_walk_parallel's walker_fn(uid, payload) runs and returns.
walker_fn_return(t) ==
  /\ In(t, "walker_fn")
  /\ Step(t, [uid |-> Top(t).id, payload |-> Top(t).data], map, nodes)
  /\ UNCHANGED atomic_counter

\* A call through `&self` that changes nothing begins.
Query(t, op, data, node_id, live, stk) ==
  /\ thread[t].status = "idle"
  /\ borrow_mut = None
  /\ Begin(t, Call(op, data, None, node_id, live), stk)
  /\ UNCHANGED <<atomic_counter, map, nodes, borrow_mut, issued, deleted>>

\* Arena::node_exists is called.
call_node_exists(t, node_id) ==
  Query(t, "node_exists", None, node_id, node_id \in map, node_exists_call(node_id))

\* Arena::get_parent_of is called.
call_get_parent_of(t, node_id) ==
  Query(t, "get_parent_of", None, node_id, node_id \in map, get_parent_of_call(node_id))

\* Arena::get_children_of is called.
call_get_children_of(t, node_id) ==
  Query(t, "get_children_of", None, node_id, node_id \in map,
        get_children_of_call(node_id))

\* Arena::has_parent is called.
call_has_parent(t, node_id) ==
  Query(t, "has_parent", None, node_id, node_id \in map, has_parent_call(node_id))

\* Arena::get_node_arc is called.
call_get_node_arc(t, node_id) ==
  Query(t, "get_node_arc", None, node_id, node_id \in map, get_node_arc_call(node_id))

\* Arena::get_node_arc_weak is called.
call_get_node_arc_weak(t, node_id) ==
  Query(t, "get_node_arc_weak", None, node_id, node_id \in map,
        get_node_arc_weak_call(node_id))

\* Arena::tree_walk_dfs is called.
call_tree_walk_dfs(t, node_id) ==
  Query(t, "tree_walk_dfs", None, node_id, node_id \in map, tree_walk_dfs_call(node_id))

\* Arena::filter_all_nodes_by is called with the predicate filter_fn.
call_filter_all_nodes_by(t, name) ==
  Query(t, "filter_all_nodes_by", Some(name), NoId, FALSE,
        filter_all_nodes_by_call(name))

\* MTArena::tree_walk_parallel: the spawned thread t takes the arena's read
\* lock with read().unwrap(), which panics on a poisoned lock, and walks.
tree_walk_parallel(t, node_id) ==
  /\ thread[t].status = "idle"
  /\ borrow_mut = None
  /\ IF Poisoned
     THEN /\ UNCHANGED tui
          /\ thread' = [thread EXCEPT ![t] =
                          [Idle EXCEPT !.status = "panicked", !.quiet = FALSE,
                                       !.call = Call("tree_walk_parallel", None, None,
                                                     node_id, node_id \in map)]]
     ELSE Begin(t, Call("tree_walk_parallel", None, None, node_id, node_id \in map),
                tree_walk_parallel_call(node_id))
  /\ UNCHANGED <<atomic_counter, map, nodes, borrow_mut, issued, deleted>>

Next ==
  \E t \in Threads :
    \/ \E data \in Payloads, p \in {None} \cup {Some(i) : i \in IdSpace} :
         add_new_node(t, data, p)
    \/ \E node_id \in IdSpace : delete_node(t, node_id)
    \/ call_return(t)
    \/ node_exists(t)
    \/ map_get(t)
    \/ node_read(t)
    \/ generate_uid(t)
    \/ map_insert(t)
    \/ children_push(t)
    \/ children_retain(t)
    \/ map_remove(t)

Spec == Init /\ [][Next]_vars

\* The same arena, looked at through what its reading methods would return
\* in each state.
SpecR == Init /\ [][Next]_vars

\* A step of thread t's call in progress: one critical section.
Section(t) ==
  \/ node_exists(t)
  \/ map_get(t)
  \/ node_read(t)
  \/ generate_uid(t)
  \/ map_insert(t)
  \/ children_push(t)
  \/ children_retain(t)
  \/ map_remove(t)

\* Thread t changes the tree, giving new nodes a payload of the set payloads.
Mutate(t, payloads) ==
  \/ \E data \in payloads, p \in {None} \cup {Some(i) : i \in IdSpace} :
       add_new_node(t, data, p)
  \/ \E node_id \in IdSpace : delete_node(t, node_id)

\* Thread t asks about a node.
Ask(t) ==
  \/ \E node_id \in IdSpace : call_node_exists(t, node_id)
  \/ \E node_id \in IdSpace : call_get_parent_of(t, node_id)
  \/ \E node_id \in IdSpace : call_get_children_of(t, node_id)
  \/ \E node_id \in IdSpace : call_has_parent(t, node_id)
  \/ \E node_id \in IdSpace : call_get_node_arc(t, node_id)
  \/ \E node_id \in IdSpace : call_get_node_arc_weak(t, node_id)
  \/ \E node_id \in IdSpace : call_tree_walk_dfs(t, node_id)

\* The thread that only reads in the specifications below.
Reader == 2

\* The arena changed by both threads and asked by the reader.
NextQ ==
  \/ \E t \in Threads : Mutate(t, Payloads) \/ call_return(t) \/ Section(t)
  \/ Ask(Reader)

SpecQ == Init /\ [][NextQ]_vars

\* The arena with payloads of two values, changed by the other thread and
\* filtered by the reader.
PayloadsF == {"x", "y"}

NextF ==
  \/ \E t \in Threads \ {Reader} : Mutate(t, PayloadsF)
  \/ \E name \in FilterFns : call_filter_all_nodes_by(Reader, name)
  \/ map_iter(Reader)
  \/ filter_fn_return(Reader)
  \/ \E t \in Threads : call_return(t) \/ Section(t)

SpecF == Init /\ [][NextF]_vars

\* The arena of an MTArena, changed and walked in parallel by both threads.
NextW ==
  \E t \in Threads :
    \/ Mutate(t, Payloads)
    \/ \E node_id \in IdSpace : tree_walk_parallel(t, node_id)
    \/ walker_fn_return(t)
    \/ call_return(t)
    \/ Section(t)

SpecW == Init /\ [][NextW]_vars

\* The arena changed by both threads and asked for children, while a thread
\* may panic holding the write lock of a node it got the Arc of.
NextP ==
  \E t \in Threads :
    \/ Mutate(t, Payloads)
    \/ \E node_id \in IdSpace : call_get_node_arc(t, node_id)
    \/ \E node_id \in IdSpace : call_get_children_of(t, node_id)
    \/ receiver_fn_panics(t)
    \/ call_return(t)
    \/ Section(t)

SpecP == Init /\ [][NextP]_vars

\* The arena changed by one thread and asked for children by both, whose
\* threads may be stopped inside the read section of a node.
NextG ==
  \/ \E t \in Threads \ {Reader} : Mutate(t, Payloads)
  \/ \E t \in Threads :
       \/ \E node_id \in IdSpace : call_get_children_of(t, node_id)
       \/ node_read_lock(t)
       \/ call_return(t)
       \/ Section(t)

SpecG == Init /\ [][NextG]_vars

\* The arena changed by one thread while the reader calls every query.
NextA ==
  \/ \E t \in Threads \ {Reader} : Mutate(t, Payloads)
  \/ Ask(Reader)
  \/ \E name \in FilterFns : call_filter_all_nodes_by(Reader, name)
  \/ map_iter(Reader)
  \/ filter_fn_return(Reader)
  \/ \E t \in Threads : call_return(t) \/ Section(t)

SpecA == Init /\ [][NextA]_vars

\* test_temp.rs: a thunk made with any compute function, and the calls of
\* access_field on it.
access_field ==
  /\ Len(accessed.returned) < MaxAccess
  /\ \A i \in 1..Len(accessed.returned) : is_some(accessed.returned[i])
  /\ LET out == Thunk_access_field(thunk, accessed.invoked)
     IN /\ thunk' = out.self
        /\ accessed' = [invoked |-> out.invoked,
                        returned |-> Append(accessed.returned, out.returns)]
  /\ UNCHANGED <<arena, canvas, client>>

InitT ==
  /\ atomic_counter = new.atomic_counter
  /\ map = new.map
  /\ nodes = <<>>
  /\ borrow_mut = None
  /\ thread = [t \in Threads |-> Idle]
  /\ issued = <<>>
  /\ deleted = {}
  /\ thunk \in {Thunk_new(f) : f \in ThunkFunctions}
  /\ accessed = NotAccessed
  /\ canvas = Canvas_default
  /\ client = NoCalls

NextT == access_field

SpecT == InitT /\ [][NextT]_vars

\* canvas.rs: one canvas and the calls of a client on it, in any order.
start(bounds_props) ==
  /\ client.calls < MaxCalls
  /\ LET out == Canvas_start(canvas, bounds_props)
     IN /\ canvas' = out.self
        /\ client' = IF out.result.ok
                     THEN [calls |-> client.calls + 1, op |-> "start",
                           result |-> out.result, started |-> TRUE,
                           open |-> 0, refused |-> 0, nested |-> TRUE]
                     ELSE [client EXCEPT !.calls = @ + 1, !.op = "start",
                                         !.result = out.result]
  /\ UNCHANGED <<arena, thunk, accessed>>

end ==
  /\ client.calls < MaxCalls
  /\ LET out == Canvas_end(canvas)
     IN /\ canvas' = out.self
        /\ client' = [client EXCEPT !.calls = @ + 1, !.op = "end",
                                    !.result = out.result]
  /\ UNCHANGED <<arena, thunk, accessed>>

start_layout(layout_props, bounds_size, new_pos) ==
  /\ client.calls < MaxCalls
  /\ LET out == Canvas_start_layout(canvas, layout_props, bounds_size, new_pos)
     IN /\ canvas' = out.self
        /\ client' = [client EXCEPT !.calls = @ + 1, !.op = "start_layout",
                                    !.result = out.result,
                                    !.open = @ + 1,
                                    !.refused = IF out.result.ok THEN @ ELSE @ + 1]
  /\ UNCHANGED <<arena, thunk, accessed>>

end_layout ==
  /\ client.calls < MaxCalls
  /\ LET out == Canvas_end_layout(canvas)
     IN /\ canvas' = out.self
        /\ client' = [client EXCEPT !.calls = @ + 1, !.op = "end_layout",
                                    !.result = out.result,
                                    !.open = IF @ = 0 THEN 0 ELSE @ - 1,
                                    !.nested = @ /\ client.open > 0]
  /\ UNCHANGED <<arena, thunk, accessed>>

NextC ==
  \/ \E bounds_props \in CanvasProps : start(bounds_props)
  \/ end
  \/ \E layout_props \in LayoutProps, bounds_size \in Sizes, new_pos \in Positions :
       start_layout(layout_props, bounds_size, new_pos)
  \/ end_layout

SpecC == Init /\ [][NextC]_vars

\* Where thread t is in its call: its frames' functions and places, and how
\* far their loops have come.
Position(t) ==
  <<thread[t].status,
    [i \in 1..Len(thread[t].stack) |->
       <<thread[t].stack[i].fn, thread[t].stack[i].pc,
         Len(thread[t].stack[i].collected), Len(thread[t].stack[i].stack)>>]>>

\* Thread t's call takes its next lock and runs the critical section.
Progress(t) ==
  Section(t) \/ map_iter(t) \/ filter_fn_return(t) \/ walker_fn_return(t)

\* The arena changed by one thread while the reader filters it, walks it in
\* parallel and asks for children, with threads that are scheduled and locks
\* that are fair: a thread whose next lock is free again and again gets it
\* (the RwLock lets no reader in past a waiting writer).  Callers need not
\* call, nor take their results.
NextL ==
  \/ \E t \in Threads \ {Reader} : Mutate(t, Payloads)
  \/ call_filter_all_nodes_by(Reader, "is_x")
  \/ \E node_id \in IdSpace : tree_walk_parallel(Reader, node_id)
  \/ \E node_id \in IdSpace : call_get_children_of(Reader, node_id)
  \/ map_iter(Reader)
  \/ filter_fn_return(Reader)
  \/ walker_fn_return(Reader)
  \/ \E t \in Threads : call_return(t) \/ Section(t)

SpecL ==
  /\ Init
  /\ [][NextL]_vars
  /\ \A t \in Threads : SF_<<Position(t)>>(Progress(t))

----------------------------------------------------------------------------
\* What a call returns on a table no other thread changes meanwhile: the
\* call's critical sections, run one after the other on the current state.
RECURSIVE Exec(_)
Exec(stk) ==
  LET f == Last(stk)
      v == CASE f.fn = "node_exists" -> contains_key(map, f.id)
             [] f.fn = "map_get" -> get(map, f.id)
             [] f.fn = "node_read" -> nodes[f.id]
      out == Resume(Front(stk), v)
  IN IF out.kind = "run" THEN Exec(out.stack) ELSE out

get_parent_of(node_id) == Exec(get_parent_of_call(node_id)).value
get_children_of(node_id) == Exec(get_children_of_call(node_id)).value

count(seq, x) == Cardinality({i \in 1..Len(seq) : seq[i] = x})
NoDuplicates(seq) == \A i, j \in 1..Len(seq) : i # j => seq[i] # seq[j]

\* No call is in progress: every call made so far has returned or panicked.
Quiescent == \A t \in Threads : ~Running(t)

\* Thread t has returned from a call of op that ran with no other call beside it.
ReturnedQuiet(t, op) ==
  /\ thread[t].status = "returned"
  /\ thread[t].call.op = op
  /\ thread[t].quiet

\* The frame of the call thread t runs.
CallFrame(t) == thread[t].stack[1]

\* id and its descendants by the children sequences of the allocations n.
RECURSIVE Subtree(_, _)
Subtree(n, id) ==
  {id} \cup UNION {Subtree(n, c) : c \in Range(n[id].children) \cap DOMAIN n}

\* The live ancestors of id, by at most k parent steps.
RECURSIVE Ancestors(_, _)
Ancestors(id, k) ==
  IF k = 0 \/ id \notin map \/ ~is_some(nodes[id].parent)
     \/ unwrap(nodes[id].parent) \notin map
  THEN {}
  ELSE {unwrap(nodes[id].parent)} \cup Ancestors(unwrap(nodes[id].parent), k - 1)

\* C1: the ids add_new_node returns, whichever threads call it and in
\* whichever order, are pairwise distinct.
C1_IdsPairwiseDistinct == NoDuplicates(issued)

C1_Witness ==
  /\ \A t \in Threads : thread[t].status = "returned" /\ thread[t].call.op = "add_new_node"
  /\ Result(1) # Result(2)

\* C2: a new arena has an empty table and issues 0 first; after N successful
\* add_new_node calls the ids returned are exactly 0..N-1.
C2_ContiguousFromZero ==
  /\ atomic_counter = 0 => map = {}
  /\ Len(issued) >= 1 => issued[1] = 0
  /\ Range(issued) = 0..(Len(issued) - 1)

C2_Witness == Len(issued) = MaxNodes /\ deleted # {}

\* C3: an id add_new_node returns is strictly greater than every id issued
\* before it, so a deleted node's id never comes back.
C3_IdsStrictlyIncrease ==
  /\ \A i, j \in 1..Len(issued) : i < j => issued[i] < issued[j]
  /\ \A t \in Threads :
       ReturnedQuiet(t, "add_new_node")
         => Result(t) \notin unwrap(thread[t].pre).deleted

C3_Witness ==
  \E t \in Threads :
    /\ ReturnedQuiet(t, "add_new_node")
    /\ unwrap(thread[t].pre).deleted # {}

\* C4: between calls, get_parent_of(id) == Some(p) with p live implies that
\* get_children_of(p) lists id exactly once.
C4_ParentChildSymmetryBetweenCalls ==
  Quiescent =>
    \A id \in IdSpace :
      LET p == get_parent_of(id)
      IN is_some(p) /\ contains_key(map, unwrap(p))
           => count(unwrap(get_children_of(unwrap(p))), id) = 1

C4_Witness ==
  /\ Quiescent
  /\ deleted # {}
  /\ \E id \in map : is_some(get_parent_of(id)) /\ unwrap(get_parent_of(id)) \in map

\* The node id is in the table with a live parent.
HasLiveParent(id) ==
  /\ id \in map
  /\ is_some(nodes[id].parent)
  /\ unwrap(nodes[id].parent) \in map

\* A running add_new_node has inserted id and not yet pushed it on its parent.
InsertedNotLinked(id) ==
  \E t \in Threads :
    /\ Running(t)
    /\ CallFrame(t).fn = "add_new_node"
    /\ CallFrame(t).pc \in {"parent_arc", "push"}
    /\ CallFrame(t).id = id

\* A running delete_node(id) has taken id off its parent and not yet removed it.
DetachedNotRemoved(id) ==
  \E t \in Threads :
    /\ Running(t)
    /\ CallFrame(t).fn = "delete_node"
    /\ CallFrame(t).pc = "remove"
    /\ CallFrame(t).id = id

\* C5 as claimed: in every reachable state, calls part-way through included,
\* a node in the table whose parent p is in the table is listed exactly once
\* in p's children.
C5_SymmetryInEveryState ==
  \A id \in map :
    HasLiveParent(id) => count(nodes[unwrap(nodes[id].parent)].children, id) = 1

\* C5 as amended: the same, except for the node a running add_new_node has
\* inserted and not yet linked, and the node a running delete_node has
\* detached and not yet removed; such a node is not listed by its parent.
C5_SymmetryExceptNodeInTransit ==
  \A id \in map :
    HasLiveParent(id) =>
      LET listed == count(nodes[unwrap(nodes[id].parent)].children, id)
      IN IF InsertedNotLinked(id) \/ DetachedNotRemoved(id)
         THEN listed <= 1
         ELSE listed = 1

C5_Witness ==
  \E id \in map :
    /\ HasLiveParent(id)
    /\ InsertedNotLinked(id)
    /\ count(nodes[unwrap(nodes[id].parent)].children, id) = 0

\* C6: in every reachable state the parent relation on live ids has no cycle
\* and every live id is in the children of at most one live node.
C6_Forest ==
  /\ \A id \in map : id \notin Ancestors(id, MaxNodes + 1)
  /\ \A id \in map :
       Cardinality({p \in map : id \in Range(nodes[p].children)}) <= 1

C6_Witness ==
  \E a, b, c \in map :
    /\ nodes[c].parent = Some(b)
    /\ nodes[b].parent = Some(a)
    /\ Ancestors(c, MaxNodes + 1) = {a, b}

\* C7: in every reachable state a live node's children hold no id twice and
\* not the node's own id.
C7_ChildrenDistinctNotSelf ==
  \A id \in map :
    /\ NoDuplicates(nodes[id].children)
    /\ id \notin Range(nodes[id].children)

C7_Witness == \E id \in map : Len(nodes[id].children) >= 2

\* C8: between calls, every id in a live node's children is a key of the
\* table, and so is every live node's parent.
C8_NoDanglingBetweenCalls ==
  Quiescent =>
    \A id \in map :
      /\ Range(nodes[id].children) \subseteq map
      /\ is_some(nodes[id].parent) => unwrap(nodes[id].parent) \in map

C8_Witness ==
  /\ Quiescent
  /\ \E id \in map, d \in deleted :
       /\ nodes[id].children # <<>>
       /\ d > id

\* C9: on a quiescent arena delete_node(id) of a live id returns id and all
\* its descendants, each once, and nothing else, and none of them is in the
\* table afterwards; delete_node of an id that is not live, a deleted one
\* included, returns None.
C9_CascadingDelete ==
  /\ deleted \cap map = {}
  /\ \A t \in Threads :
       ReturnedQuiet(t, "delete_node") =>
         LET pre == unwrap(thread[t].pre)
             id == thread[t].call.id
             res == Result(t)
         IN IF id \in pre.map
            THEN /\ is_some(res)
                 /\ NoDuplicates(unwrap(res))
                 /\ Range(unwrap(res)) = Subtree(pre.nodes, id)
                 /\ Range(unwrap(res)) \cap map = {}
            ELSE res = None

C9_Witness ==
  \E t \in Threads :
    /\ ReturnedQuiet(t, "delete_node")
    /\ is_some(Result(t))
    /\ Len(unwrap(Result(t))) = 3

\* C10: on a quiescent arena delete_node(id) of a node with a live parent p
\* leaves in p's children the former children without id, in their former
\* order, and leaves every node outside id's subtree live and as it was.
C10_PartialDeleteFrame ==
  \A t \in Threads :
    ReturnedQuiet(t, "delete_node") =>
      LET pre == unwrap(thread[t].pre)
          id == thread[t].call.id
      IN id \in pre.map /\ is_some(pre.nodes[id].parent)
         /\ unwrap(pre.nodes[id].parent) \in pre.map =>
           LET p == unwrap(pre.nodes[id].parent)
           IN \A n \in pre.map \ Subtree(pre.nodes, id) :
                /\ n \in map
                /\ nodes[n].id = pre.nodes[n].id
                /\ nodes[n].parent = pre.nodes[n].parent
                /\ nodes[n].payload = pre.nodes[n].payload
                /\ nodes[n].children =
                     IF n = p
                     THEN SelectSeq(pre.nodes[n].children, LAMBDA c : c # id)
                     ELSE pre.nodes[n].children

C10_Witness ==
  \E t \in Threads :
    /\ ReturnedQuiet(t, "delete_node")
    /\ LET pre == unwrap(thread[t].pre)
           id == thread[t].call.id
       IN /\ id \in pre.map
          /\ is_some(pre.nodes[id].parent)
          /\ unwrap(pre.nodes[id].parent) \in map
          /\ Len(pre.nodes[unwrap(pre.nodes[id].parent)].children) = 2
          /\ nodes[unwrap(pre.nodes[id].parent)].children # <<>>

\* What tree_walk_dfs(node_id) returns on the table as it is.
tree_walk_dfs(node_id) == Exec(tree_walk_dfs_call(node_id)).value

\* The place of x in the list.
pos(list, x) == CHOOSE i \in 1..Len(list) : list[i] = x

\* C11 DFS completeness: in a quiescent arena, for every live root,
\* tree_walk_dfs(root) returns Some list that has no duplicates, holds as many
\* ids as the root's subtree has nodes, and is as a set the root and all its
\* descendants.
C11_DfsCompleteness ==
  Quiescent =>
    \A root \in map :
      LET r == tree_walk_dfs(root)
      IN /\ is_some(r)
         /\ NoDuplicates(unwrap(r))
         /\ Len(unwrap(r)) = Cardinality(Subtree(nodes, root))
         /\ Range(unwrap(r)) = Subtree(nodes, root)

C11_Witness ==
  /\ Quiescent
  /\ \E root \in map :
       /\ Cardinality(Subtree(nodes, root)) = MaxNodes
       /\ Len(unwrap(tree_walk_dfs(root))) = MaxNodes

\* C12 DFS order: in a quiescent arena, tree_walk_dfs(root) lists the root
\* first; for two children of a listed node, every node of the later child's
\* subtree is listed before every node of the earlier child's subtree; and
\* every node is listed before each of its descendants.
C12_DfsLifoOrder ==
  Quiescent =>
    \A root \in map :
      LET list == unwrap(tree_walk_dfs(root))
      IN /\ list[1] = root
         /\ \A p \in Range(list) :
              LET children == nodes[p].children
              IN /\ \A i, j \in 1..Len(children) :
                      i < j =>
                        \A a \in Subtree(nodes, children[j]),
                           b \in Subtree(nodes, children[i]) :
                          pos(list, a) < pos(list, b)
                 /\ \A d \in Subtree(nodes, p) \ {p} : pos(list, p) < pos(list, d)

C12_Witness ==
  /\ Quiescent
  /\ \E root \in map :
       /\ Len(nodes[root].children) = 2
       /\ tree_walk_dfs(root) =
            Some(<<root, nodes[root].children[2], nodes[root].children[1]>>)

\* The calls C13 is about.
AbsenceOps ==
  {"node_exists", "get_parent_of", "get_children_of", "get_node_arc",
   "get_node_arc_weak", "tree_walk_dfs", "delete_node"}

\* Thread t's call is one of AbsenceOps on an id that was no key of the table
\* when the call began (ids are never reused, and add_new_node runs alone, so
\* the id is no key during the whole call).
AbsentCall(t) ==
  /\ thread[t].status # "idle"
  /\ thread[t].call.op \in AbsenceOps
  /\ ~thread[t].call.live

\* C13 absence is non-fatal: a call of node_exists, get_parent_of,
\* get_children_of, get_node_arc, get_node_arc_weak, tree_walk_dfs or
\* delete_node on an id that is no key of the table never panics; node_exists
\* returns false and the others return None; and when no other call ran
\* beside it, the table, every node and the id counter are as they were when
\* the call began.
C13_AbsenceNonFatal ==
  \A t \in Threads :
    AbsentCall(t) =>
      /\ thread[t].status # "panicked"
      /\ thread[t].status = "returned" =>
           /\ IF thread[t].call.op = "node_exists"
              THEN Result(t) = FALSE
              ELSE Result(t) = None
           /\ thread[t].quiet =>
                /\ map = unwrap(thread[t].pre).map
                /\ \A id \in map : nodes[id] = unwrap(thread[t].pre).nodes[id]
                /\ atomic_counter = unwrap(thread[t].pre).atomic_counter

C13_Witness ==
  /\ map # {}
  /\ \E t \in Threads :
       /\ AbsentCall(t)
       /\ thread[t].call.op = "delete_node"
       /\ thread[t].call.id \in deleted
       /\ thread[t].status = "returned"
  /\ AbsentCall(Reader)
  /\ ReturnedQuiet(Reader, "get_node_arc_weak")

\* Thread t's call is add_new_node(payload, Some(p)) and p was no key of the
\* table when the call began.
AddUnderAbsentParent(t) ==
  /\ thread[t].status # "idle"
  /\ thread[t].call.op = "add_new_node"
  /\ is_some(thread[t].call.parent)
  /\ ~thread[t].call.live

\* C14 add_new_node(payload, Some(p)) with p no key of the table panics: the
\* call never returns an identifier, and once its test of the parent has run
\* it has panicked.
C14_AddUnderAbsentParentPanics ==
  \A t \in Threads :
    AddUnderAbsentParent(t) =>
      \/ thread[t].status = "panicked"
      \/ Running(t) /\ CallFrame(t).pc = "check" /\ Top(t).fn = "node_exists"

C14_Witness ==
  \E t \in Threads :
    /\ AddUnderAbsentParent(t)
    /\ thread[t].status = "panicked"
    /\ unwrap(thread[t].call.parent) \in deleted
    /\ map # {}

\* What has_parent(node_id) returns on the table as it is.
has_parent(node_id) == Exec(has_parent_call(node_id)).value

\* C15 has_parent(id) is true exactly when id is a key of the table, the
\* node's parent field is Some(p), and p is a key of the table; so it is
\* false for a live node whose recorded parent has been removed.
C15_HasParentIffLiveParent ==
  \A id \in IdSpace :
    has_parent(id) = /\ id \in map
                     /\ is_some(nodes[id].parent)
                     /\ unwrap(nodes[id].parent) \in map

C15_Witness ==
  \E id \in map :
    /\ is_some(nodes[id].parent)
    /\ unwrap(nodes[id].parent) \notin map
    /\ unwrap(nodes[id].parent) \in deleted
    /\ has_parent(id) = FALSE

\* C16 get_children_of(id), called with no other call beside it, returns None
\* exactly when id is no key of the table; for a key it returns Some of the
\* node's children, listed in the order in which add_new_node returned them,
\* which is Some of the empty sequence for a node without children.
C16_ChildrenOfLiveInOrderAdded ==
  \A t \in Threads :
    ReturnedQuiet(t, "get_children_of") =>
      LET id == thread[t].call.id
          r == Result(t)
      IN /\ r = None <=> id \notin map
         /\ id \in map =>
              /\ r = Some(nodes[id].children)
              /\ nodes[id].children = <<>> => r = Some(<<>>)
              /\ \A i, j \in 1..Len(unwrap(r)) :
                   i < j => pos(issued, unwrap(r)[i]) < pos(issued, unwrap(r)[j])

C16_Witness ==
  \E t \in Threads :
    /\ ReturnedQuiet(t, "get_children_of")
    /\ thread[t].call.id \in map
    /\ is_some(Result(t))
    /\ Len(unwrap(Result(t))) = 2
    /\ \E id \in map : nodes[id].children = <<>>

\* The live ids whose (id, payload) satisfies the predicate.
Matching(name) == {id \in map : filter_fn(name, id, nodes[id].payload)}

\* Thread t returns from a call of op in this step.
Returns(t, op) ==
  /\ Running(t)
  /\ thread[t].call.op = op
  /\ thread'[t].status = "returned"

\* C17 filter_all_nodes_by(pred), at the step it returns, whatever the other
\* thread does meanwhile: None when no live node's (id, payload) satisfies
\* pred, otherwise Some list holding exactly once each exactly the live ids
\* whose payload satisfies pred.
C17_FilterExactMatches ==
  [][\A t \in Threads :
       Returns(t, "filter_all_nodes_by") =>
         LET r == unwrap(thread'[t].result)
             matching == Matching(unwrap(thread[t].call.data))
         IN IF matching = {}
            THEN r = None
            ELSE /\ is_some(r)
                 /\ NoDuplicates(unwrap(r))
                 /\ Range(unwrap(r)) = matching]_vars

C17_Witness ==
  \E t \in Threads :
    /\ thread[t].status = "returned"
    /\ thread[t].call.op = "filter_all_nodes_by"
    /\ thread[t].call.data = Some("is_y")
    /\ is_some(Result(t))
    /\ Len(unwrap(Result(t))) = 2
    /\ Cardinality(map) = MaxNodes

\* C18 on a tree no other call touches meanwhile, the value the join of
\* tree_walk_parallel(root, visitor) yields is what tree_walk_dfs(root)
\* returns: the same ids in the same order, or None for both.
C18_ParallelWalkEqualsDfs ==
  \A t \in Threads :
    ReturnedQuiet(t, "tree_walk_parallel") =>
      Result(t) = tree_walk_dfs(thread[t].call.id)

C18_Witness ==
  \E t \in Threads :
    /\ ReturnedQuiet(t, "tree_walk_parallel")
    /\ Result(t) = tree_walk_dfs(thread[t].call.id)
    /\ is_some(Result(t))
    /\ Len(unwrap(Result(t))) = MaxNodes
    /\ unwrap(Result(t))[2] > unwrap(Result(t))[3]

\* The walker_fn calls that match the list: one for each id, in the list's
\* order, with the id and the payload of its node.
VisitsOf(list) ==
  [i \in 1..Len(list) |-> [uid |-> list[i], payload |-> "x"]]

\* C19 (as stated) tree_walk_parallel has called the visitor exactly once for
\* each id of the list it returns, in the list's order, with the node's id
\* and payload, by the time the join yields.
C19_VisitorOncePerReturnedId ==
  \A t \in Threads :
    (thread[t].status = "returned" /\ thread[t].call.op = "tree_walk_parallel") =>
      thread[t].visited = IF is_some(Result(t))
                          THEN VisitsOf(unwrap(Result(t)))
                          ELSE <<>>

AddsUnder(p) ==
  {t \in Threads : /\ thread[t].status = "returned"
                   /\ thread[t].call.op = "add_new_node"
                   /\ thread[t].call.parent = Some(p)}

\* C21 no lost updates: when an add_new_node under the same parent p has
\* returned on each of two threads, p is live and neither new node has been
\* deleted, p's children hold both new ids, each once, and the later add has
\* left the children p had before it in place, its own id appended.
C21_NoLostUpdates ==
  \A p \in map : \A t, u \in AddsUnder(p) :
    (t # u /\ Result(t) \notin deleted /\ Result(u) \notin deleted) =>
      /\ count(nodes[p].children, Result(t)) = 1
      /\ count(nodes[p].children, Result(u)) = 1
      /\ ReturnedQuiet(u, "add_new_node") =>
           /\ count(unwrap(thread[u].pre).nodes[p].children, Result(t)) = 1
           /\ nodes[p].children =
                Append(unwrap(thread[u].pre).nodes[p].children, Result(u))

\* Both threads have added a node under the live root, one after the other.
C21_Witness ==
  \E p \in map : \E t, u \in AddsUnder(p) :
    /\ t # u
    /\ ReturnedQuiet(u, "add_new_node")
    /\ Result(t) \in map
    /\ Result(u) \in map
    /\ Len(nodes[p].children) = 2

\* C23 (as stated) when tree_walk_dfs(root) has visited root and an id it pops
\* later no longer resolves because another thread deleted it, only that
\* branch is skipped: the call returns Some list that holds the ids it
\* visited, root among them; it does not return None.
C23_MissingBranchSkipped ==
  [][\A t \in Threads :
       (Returns(t, "tree_walk_dfs") /\ CallFrame(t).collected # <<>>) =>
         LET r == unwrap(thread'[t].result)
         IN /\ is_some(r)
            /\ Range(CallFrame(t).collected) \subseteq Range(unwrap(r))]_vars

\* The threads whose delete_node has computed its deletion list and has not
\* returned.
Deleting ==
  {t \in Threads : /\ Running(t)
                   /\ CallFrame(t).fn = "delete_node"
                   /\ CallFrame(t).collected # <<>>}

C22_CallbackHoldsNoLock ==
  \A t \in InCallback :
    /\ t \notin NodeReaders(Top(t).id)
    /\ t \notin MapReaders

get_node_arc(node_id) == Exec(get_node_arc_call(node_id)).value

\* Weak::upgrade of the Weak that get_node_arc_weak(node_id) returned: Some
\* Arc while the allocation has a strong reference.
upgrade(node_id) == IF node_id \in DOMAIN nodes THEN Some(node_id) ELSE None

\* C26 the Arc a thread got from get_node_arc(id) stays usable, its node
\* lockable and the payload readable, after delete_node has removed id from
\* the table, while get_node_arc, get_parent_of and get_children_of of id then
\* return None; a Weak of a node that was added upgrades exactly while the
\* table or some thread's Arc holds the node.
C26_HandlesAndTheTable ==
  /\ \A t \in Threads :
       ( /\ thread[t].status = "returned"
         /\ thread[t].call.op = "get_node_arc"
         /\ is_some(Result(t)) ) =>
         LET id == unwrap(Result(t))
         IN /\ id \in DOMAIN nodes
            /\ nodes[id].id = id
            /\ nodes[id].payload \in Payloads
            /\ id \notin map =>
                 /\ get_node_arc(id) = None
                 /\ get_parent_of(id) = None
                 /\ get_children_of(id) = None
  /\ \A id \in Range(issued) :
       is_some(upgrade(id)) <=>
         \/ id \in map
         \/ \E t \in Threads : /\ thread[t].status = "returned"
                               /\ thread[t].call.op = "get_node_arc"
                               /\ Result(t) = Some(id)
         \/ \E t \in Threads : /\ Running(t)
                               /\ Top(t).fn \in {"node_read", "node_write", "walker_fn"}
                               /\ Top(t).id = id

\* A thread holds the Arc of a node that a delete_node has since removed from
\* the table: its Weak still upgrades.
C26_Witness ==
  \E t \in Threads :
    /\ thread[t].status = "returned"
    /\ thread[t].call.op = "get_node_arc"
    /\ is_some(Result(t))
    /\ unwrap(Result(t)) \in deleted
    /\ unwrap(Result(t)) \notin map
    /\ is_some(upgrade(unwrap(Result(t))))

\* The threads whose add_new_node has its new id.
Adding ==
  {t \in Threads : /\ Running(t)
                   /\ CallFrame(t).fn = "add_new_node"
                   /\ CallFrame(t).id # NoId}

\* C28 add_new_node(payload, Some(p)) makes the new node a key of the table
\* before it appends the new id to p's children: while the call is between
\* the two, node_exists(new_id) holds and get_parent_of(new_id) is Some(p)
\* and get_children_of(p) does not hold new_id; and in no state does a node
\* list new_id while new_id is not in the table.
C28_InsertedBeforeLinked ==
  \A t \in Adding :
    LET f == CallFrame(t)
    IN /\ InsertedNotLinked(f.id) =>
            /\ contains_key(map, f.id)
            /\ get_parent_of(f.id) = f.parent
            /\ is_some(f.parent) =>
                 /\ is_some(get_children_of(unwrap(f.parent)))
                 /\ count(unwrap(get_children_of(unwrap(f.parent))), f.id) = 0
       /\ ~contains_key(map, f.id) =>
            \A p \in DOMAIN nodes : count(nodes[p].children, f.id) = 0

\* A node is in the table with its parent field set, and its live parent
\* does not list it yet.
C28_Witness ==
  \E t \in Adding :
    LET f == CallFrame(t)
    IN /\ InsertedNotLinked(f.id)
       /\ f.id \in map
       /\ is_some(f.parent)
       /\ get_parent_of(f.id) = f.parent
       /\ get_children_of(unwrap(f.parent)) = Some(<<>>)

\* C29 (as stated) the orphan race: while add_new_node(payload, Some(p)) is
\* between the insertion of the new node and the link into p, another thread
\* that is between calls can delete p by a delete_node that begins there (the
\* link step is then skipped and the new node stays in the table under a
\* parent that is gone).
C29_OrphanRace ==
  \A t \in Adding :
    LET f == CallFrame(t)
    IN (InsertedNotLinked(f.id) /\ is_some(f.parent)) =>
         \A u \in Threads \ {t} :
           thread[u].status = "idle" => ENABLED delete_node(u, unwrap(f.parent))

\* C29 (amended) there is no orphan race: add_new_node borrows the arena
\* mutably, so while it is between the insertion and the link no other call
\* runs or begins and p stays live; the link step is not skipped, and when
\* add_new_node(payload, Some(p)) has returned the new id, before any other
\* call, the new node is in the table, p lists it once and has_parent(new_id)
\* is true.
C29_NoOrphanRace ==
  /\ \A t \in Adding :
       LET f == CallFrame(t)
       IN (InsertedNotLinked(f.id) /\ is_some(f.parent)) =>
            /\ unwrap(f.parent) \in map
            /\ \A u \in Threads \ {t} :
                 /\ ~Running(u)
                 /\ \A node_id \in IdSpace : ~ENABLED delete_node(u, node_id)
  /\ \A t \in Threads :
       (ReturnedQuiet(t, "add_new_node") /\ is_some(thread[t].call.parent)) =>
         LET p == unwrap(thread[t].call.parent)
         IN /\ Result(t) \in map
            /\ p \in map
            /\ nodes[Result(t)].parent = Some(p)
            /\ count(nodes[p].children, Result(t)) = 1
            /\ has_parent(Result(t))

\* An add_new_node under a live parent has returned, the new node linked
\* into it.
C29_Witness ==
  \E t \in Threads :
    /\ ReturnedQuiet(t, "add_new_node")
    /\ is_some(thread[t].call.parent)
    /\ Result(t) \in Range(nodes[unwrap(thread[t].call.parent)].children)

\* C30 (as stated) while the thread of tree_walk_parallel holds the arena's
\* read lock the set of nodes to visit is stable: between its DFS walk and its
\* last call of the visitor no delete_node of another thread removes a table
\* entry, so every id of the list that is still to be visited is live.
C30_VisitedSetStable ==
  \A t \in Threads :
    ( /\ Running(t)
      /\ CallFrame(t).fn = "tree_walk_parallel"
      /\ CallFrame(t).pc \in {"arc", "read", "visit"} ) =>
      LET f == CallFrame(t)
          pending == Range(f.stack) \cup
                       (IF f.pc = "arc" THEN {unwrap(f.parent)} ELSE {})
      IN pending \subseteq map

\* The threads in a get_children_of that hold the read lock of a node.
ReadingChildren ==
  {t \in Threads : /\ Running(t)
                   /\ thread[t].call.op = "get_children_of"
                   /\ t \in NodeReaders(Top(t).id)}

\* C27 readers do not exclude each other: a thread in get_children_of can
\* take its next lock and run that critical section in every state, wherever
\* the other thread is stopped, inside a read section too; so each call
\* completes whatever the other does.
C27_ReadersNotExcluded ==
  \A t \in Threads :
    (Running(t) /\ thread[t].call.op = "get_children_of") => ENABLED Section(t)

\* Both threads are inside the node read sections of their get_children_of,
\* on different live nodes, each holding its node's read lock.
C27_Witness ==
  /\ ReadingChildren = Threads
  /\ \A t, u \in Threads : t # u => Top(t).id # Top(u).id
  /\ \A t \in Threads : Top(t).id \in map

\* Thread t's delete_node runs with no other call beside it and has walked
\* the subtree, and has not changed the arena yet.
WalkedNotDetached(t) ==
  /\ t \in Deleting
  /\ thread[t].quiet
  /\ \/ CallFrame(t).pc \in {"has_parent", "get_parent", "parent_arc"}
     \/ CallFrame(t).pc = "retain" /\ Top(t).fn = "node_write"
     \/ CallFrame(t).pc = "remove" /\ ~is_some(CallFrame(t).parent)

\* C31 the list a delete_node(id) returns, when no other call runs beside
\* it, is element for element the list tree_walk_dfs(id) returns on the arena
\* as it is before the delete changes it, so id is its first element.
C31_DeletedListIsDfsList ==
  [][\A t \in Threads :
       /\ WalkedNotDetached(t) =>
            /\ map = unwrap(thread[t].pre).map
            /\ nodes = unwrap(thread[t].pre).nodes
            /\ tree_walk_dfs(CallFrame(t).id) = Some(CallFrame(t).collected)
            /\ Head(CallFrame(t).collected) = CallFrame(t).id
       /\ (Returns(t, "delete_node") /\ t \in Deleting /\ thread[t].quiet) =>
            unwrap(thread'[t].result) = Some(CallFrame(t).collected)]_vars

\* A delete_node of a node with a child has returned the two ids, the node
\* first.
C31_Witness ==
  \E t \in Threads :
    /\ ReturnedQuiet(t, "delete_node")
    /\ is_some(Result(t))
    /\ Len(unwrap(Result(t))) >= 2
    /\ Head(unwrap(Result(t))) = thread[t].call.id

\* C32 a successful add_new_node(payload, parent), before any other call:
\* the returned id is a new key of the table, the node under it has that id,
\* no children, the given parent and the given payload; when parent is
\* Some(p) the id is the last of p's children, after the children p had; and
\* no other node's id, parent, children or payload has changed.
C32_AddCreatesExactlyTheNode ==
  \A t \in Threads :
    ReturnedQuiet(t, "add_new_node") =>
      LET pre == unwrap(thread[t].pre)
          id == Result(t)
          parent == thread[t].call.parent
      IN /\ id \notin pre.map
         /\ map = pre.map \cup {id}
         /\ nodes[id].id = id
         /\ nodes[id].children = <<>>
         /\ nodes[id].parent = parent
         /\ nodes[id].payload = unwrap(thread[t].call.data)
         /\ \A n \in pre.map :
              /\ nodes[n].id = pre.nodes[n].id
              /\ nodes[n].parent = pre.nodes[n].parent
              /\ nodes[n].payload = pre.nodes[n].payload
              /\ nodes[n].children =
                   IF parent = Some(n)
                   THEN Append(pre.nodes[n].children, id)
                   ELSE pre.nodes[n].children

\* An add_new_node under a parent that had a child has returned.
C32_Witness ==
  \E t \in Threads :
    /\ ReturnedQuiet(t, "add_new_node")
    /\ is_some(thread[t].call.parent)
    /\ Len(nodes[unwrap(thread[t].call.parent)].children) = 2
    /\ Last(nodes[unwrap(thread[t].call.parent)].children) = Result(t)

\* The places (t, i) of the frames of tree_walk_dfs that are running, those
\* of delete_node's and tree_walk_parallel's walks among them.
Walks ==
  {w \in Threads \X (1..MaxNodes + 4) :
     /\ Running(w[1])
     /\ w[2] <= Len(thread[w[1]].stack)
     /\ thread[w[1]].stack[w[2]].fn = "tree_walk_dfs"}

\* C33 tree_walk_dfs terminates, also while other threads add and delete
\* nodes: the ids it has visited and the ids on its stack are pairwise
\* distinct ids that add_new_node has generated, so the loop, which visits
\* one id in each turn, runs at most as many turns as ids were generated, and
\* the stack empties; no turn waits for a lock that is never free (C20).
C33_WalkVisitsEachIdOnce ==
  \A w \in Walks :
    LET f == thread[w[1]].stack[w[2]]
    IN /\ NoDuplicates(f.collected \o f.stack)
       /\ Range(f.collected \o f.stack) \subseteq 0..atomic_counter - 1
       /\ Len(f.collected) + Len(f.stack) <= atomic_counter

\* A walk has visited the root, has popped one of its two children and has
\* the other on its stack, while the other thread is in a delete_node that
\* has detached a node.
C33_Witness ==
  \E w \in Walks :
    LET f == thread[w[1]].stack[w[2]]
    IN /\ Len(f.collected) = 1
       /\ Len(f.stack) = 1
       /\ f.pc = "arc"
       /\ \E t \in Deleting \ {w[1]} : CallFrame(t).pc = "remove"

\* C34 (as stated) in every interleaving of concurrent delete_node calls no
\* call fails fatally: each returns None or Some list of ids.
C34_DeleteNeverPanics ==
  \A t \in Threads :
    thread[t].call.op = "delete_node" => thread[t].status # "panicked"

\* C35 (as stated) each id is reported as deleted at most once: the lists
\* that two delete_node calls have returned share no id.
C35_DeletedListsDisjoint ==
  \A t, u \in Threads :
    ( /\ t # u
      /\ thread[t].status = "returned" /\ thread[t].call.op = "delete_node"
      /\ thread[u].status = "returned" /\ thread[u].call.op = "delete_node"
      /\ is_some(Result(t)) /\ is_some(Result(u)) ) =>
      Range(unwrap(Result(t))) \cap Range(unwrap(Result(u))) = {}

\* Thread t's call of op fails in this step.
Fails(t, op) ==
  /\ Running(t)
  /\ thread[t].call.op = op
  /\ thread'[t].status = "panicked"

\* C36 a failed add_new_node (parent not live) changes nothing: at the step
\* it fails the table, the nodes and the identifier counter are as they were
\* when the call began; so the next successful add_new_node returns the
\* counter's value as it was before the failed call.
C36_FailedAddChangesNothing ==
  [][\A t \in Threads :
       /\ Fails(t, "add_new_node") =>
            /\ ~thread[t].call.live
            /\ map' = unwrap(thread[t].pre).map
            /\ nodes' = unwrap(thread[t].pre).nodes
            /\ atomic_counter' = unwrap(thread[t].pre).atomic_counter
       /\ Returns(t, "add_new_node") =>
            /\ unwrap(thread'[t].result) = unwrap(thread[t].pre).atomic_counter
            /\ \A u \in Threads \ {t} :
                 (thread[u].status = "panicked" /\ thread[u].call.op = "add_new_node")
                   => thread'[u] = thread[u]]_vars

\* An add_new_node has failed and a later one has returned the first id.
C36_Witness ==
  \E t, u \in Threads :
    /\ thread[t].status = "panicked"
    /\ thread[t].call.op = "add_new_node"
    /\ ReturnedQuiet(u, "add_new_node")
    /\ Result(u) = 0

\* The query operations.
QueryOps ==
  {"node_exists", "get_parent_of", "get_children_of", "has_parent",
   "filter_all_nodes_by", "get_node_arc", "get_node_arc_weak", "tree_walk_dfs"}

\* C37 the query operations change nothing: no step of a call of node_exists,
\* get_parent_of, get_children_of, has_parent, filter_all_nodes_by,
\* get_node_arc, get_node_arc_weak or tree_walk_dfs changes the table's keys,
\* a node's id, parent, children or payload, or the identifier counter.
C37_QueriesChangeNothing ==
  [][\A t \in Threads :
       ( /\ Running(t)
         /\ thread[t].call.op \in QueryOps
         /\ thread'[t].stack # thread[t].stack ) =>
       /\ map' = map
       /\ atomic_counter' = atomic_counter
       /\ \A id \in map : nodes'[id] = nodes[id]]_vars

\* A filter_all_nodes_by has returned a list on an arena with a node.
C37_Witness ==
  /\ map # {}
  /\ \E t \in Threads :
       /\ ReturnedQuiet(t, "filter_all_nodes_by")
       /\ is_some(Result(t))

\* Thread t has called tree_walk_parallel with a root that is no key of the
\* table (and cannot become one while the call runs).
AbsentRootWalk(t) ==
  /\ thread[t].status # "idle"
  /\ thread[t].call.op = "tree_walk_parallel"
  /\ ~thread[t].call.live

\* C38 (as stated) tree_walk_parallel(root, visitor) with root not live
\* yields None on join and never invokes the visitor.
C38_AbsentRootYieldsNone ==
  \A t \in Threads :
    (AbsentRootWalk(t) /\ ~Running(t)) =>
      /\ thread[t].status = "returned"
      /\ Result(t) = None
      /\ thread[t].visited = <<>>

\* C38 (amended) tree_walk_parallel(root, visitor) with root not live never
\* invokes the visitor, and its join yields None, except that on an arena
\* whose lock a panicked writer has poisoned the spawned thread panics and
\* the join yields that error.
C38_AbsentRootNoneOrPoisoned ==
  \A t \in Threads :
    AbsentRootWalk(t) =>
      /\ thread[t].visited = <<>>
      /\ thread[t].status = "returned" => Result(t) = None
      /\ thread[t].status = "panicked" => Poisoned

\* A tree_walk_parallel of a root that is not there has returned None on an
\* arena with nodes.
C38_Witness ==
  \E t \in Threads :
    /\ AbsentRootWalk(t)
    /\ thread[t].status = "returned"
    /\ Result(t) = None
    /\ map # {}
    /\ ~Poisoned

\* C39: over any number of access_field calls the compute function is invoked
\* at most once, by the first call only; the field goes from NotComputedYet to
\* ComputedResultingInValue or ComputedResultingInError, holding what that
\* invocation returned, and never changes again; every access_field returns
\* what the first one returned.
C39_ComputedOnceAndCached ==
  /\ [](/\ accessed.invoked = (IF accessed.returned = <<>> THEN 0 ELSE 1)
        /\ (accessed.returned = <<>>) <=> (thunk.field = NotComputedYet)
        /\ \A i \in 1..Len(accessed.returned) :
             /\ accessed.returned[i] = Some(thunk.compute_field_value_fn[1])
             /\ thunk.field =
                  (IF thunk.compute_field_value_fn[1].ok
                   THEN ComputedResultingInValue(
                          unwrap(thunk.compute_field_value_fn[1].value))
                   ELSE ComputedResultingInError(
                          unwrap(thunk.compute_field_value_fn[1].err))))
  /\ [][thunk.field # NotComputedYet => thunk'.field = thunk.field]_vars

\* Three calls of access_field have returned, on a thunk whose compute function
\* would have returned something else had it been invoked again.
C39_Witness ==
  /\ Len(accessed.returned) = MaxAccess
  /\ thunk.compute_field_value_fn[2] # thunk.compute_field_value_fn[1]
  /\ ~thunk.compute_field_value_fn[1].ok

\* C40: start and end succeed exactly when the layout stack is empty, and
\* otherwise return MismatchedStart / MismatchedEnd and leave the canvas as it
\* was; end_layout on an empty stack returns MismatchedEndLayout and leaves the
\* stack as it was; a start_layout that succeeds makes the stack one layout
\* longer and an end_layout that succeeds removes its last layout; and when
\* end is called after start and a properly nested sequence of start_layout
\* and end_layout calls, the stack is empty and end succeeds.
C40_LayoutStackProtocol ==
  [][client'.calls = client.calls + 1 =>
       LET op == client'.op
           result == client'.result
           layout_stack == canvas.layout_stack
       IN /\ op = "start" =>
               /\ result.ok <=> layout_stack = <<>>
               /\ ~result.ok => /\ result = Err(LayoutError("MismatchedStart"))
                                /\ canvas' = canvas
          /\ op = "end" =>
               /\ result.ok <=> layout_stack = <<>>
               /\ ~result.ok => /\ result = Err(LayoutError("MismatchedEnd"))
                                /\ canvas' = canvas
               /\ client.started /\ client.nested /\ client.open = 0
                    => layout_stack = <<>> /\ result.ok
          /\ op = "end_layout" /\ layout_stack = <<>> =>
               /\ result = Err(LayoutError("MismatchedEndLayout"))
               /\ canvas'.layout_stack = layout_stack
          /\ op = "start_layout" /\ result.ok =>
               /\ Len(canvas'.layout_stack) = Len(layout_stack) + 1
               /\ \A i \in 1..Len(layout_stack) :
                    canvas'.layout_stack[i].id = layout_stack[i].id
          /\ op = "end_layout" /\ result.ok =>
               /\ layout_stack # <<>>
               /\ canvas'.layout_stack = Front(layout_stack)]_vars

\* end has succeeded after start and a properly nested sequence of
\* start_layout and end_layout calls in which a start_layout call, made inside
\* two layouts, returned an error.
C40_Witness ==
  /\ client.op = "end"
  /\ client.result.ok
  /\ client.started /\ client.nested /\ client.open = 0
  /\ client.refused = 1

====
